---- MODULE Spec2Model ----
(***************************************************************************)
(* Model of the pydedupe record-linkage core: the blocking index           *)
(* (dedupe/block.py), the all-pairs index (dedupe/allpairs.py) and the     *)
(* Indices collection (dedupe/sim.py), followed by the classifiers and the *)
(* grouping step.                                                          *)
(*                                                                         *)
(* Records are Python objects: each has an identity (the object) and a     *)
(* value (its tuple of fields).  `is` compares identities; ==, <, hashing, *)
(* list.sort() and dict keys compare values.                               *)
(***************************************************************************)
EXTENDS Integers, Sequences, FiniteSets, TLC

\* ------------------------------------------------------------------ bounds
NObj == 3          \* number of record objects
MaxInput == 2      \* insert calls on the Indices of the input records ("L")

\* ----------------------------------------------------------------- records
Objs == 1..NObj

\* The field value of a record object.  Objects 1 and 2 are two rows with
\* equal field values, object 3 has a greater value, and so on in pairs.
val(o) == (o + 1) \div 2

Vals == {val(o) : o \in Objs}

\* ------------------------------------------------------------------- keys
None == "<None>"                 \* Python None, as an index key
GoodKeys == {"a", "b"}
AllKeys == GoodKeys \cup {"", None}

\* dict iteration order of an Index (any fixed order: the results of count
\* and compare do not depend on it)
KeyOrder == <<"a", "b">>

\* Key functions handed to block.Index as `makekey`.
makekey(name, o) ==
  CASE name = "byval"   -> << IF val(o) % 2 = 1 THEN "a" ELSE "b" >>
    [] name = "const"   -> << "a" >>
    [] name = "multi"   -> << "a", "b" >>
    [] name = "twice"   -> << "a", "a" >>
    [] name = "badtail" -> IF val(o) = 1 THEN << "b" >> ELSE << "b", "" >>
    [] name = "badnone" -> IF val(o) = 1 THEN << "a" >> ELSE << None >>
    [] name = "sparse"  -> IF val(o) = 1 THEN << >> ELSE << "a" >>
    [] OTHER            -> << >>

\* ---------------------------------------------------------------- indexes
EmptyDict == [k \in {} |-> << >>]

\* block.Index(makekey, records): a dict with a key function, holding the
\* buckets that inserting the records has made
NewBlock(kf, buckets) ==
  [type |-> "block", makekey |-> kf, buckets |-> buckets, records |-> "-"]

\* allpairs.Index(makekey, records): keeps a reference to the list it is given
NewAllPairs(listref) ==
  [type |-> "allpairs", makekey |-> "-", buckets |-> EmptyDict, records |-> listref]

\* None where an index is expected
NoIndex == [type |-> "None", makekey |-> "-", buckets |-> EmptyDict, records |-> "-"]

\* Indexing strategies: sequences of (index class, key function)
ByValMulti    == << <<"block", "byval">>, <<"block", "multi">> >>
TwiceBadTail  == << <<"block", "twice">>, <<"block", "badtail">> >>
AllPairsConst == << <<"allpairs", "-">>, <<"block", "const">> >>
ByValAllPairs == << <<"block", "byval">>, <<"allpairs", "-">> >>
BadNone       == << <<"block", "badnone">> >>
ByValSparse   == << <<"block", "byval">>, <<"block", "sparse">> >>

\* The constructions tried: the strategy of the input Indices (l) and of the
\* master Indices (r), and the `records` list each constructor is given (the
\* default argument, or a list of the caller's: "L" is empty, "R" holds the
\* master records).
Constructions ==
  { [l |-> ByValMulti,    r |-> ByValMulti,    ll |-> "L",       lr |-> "R"],
    [l |-> TwiceBadTail,  r |-> TwiceBadTail,  ll |-> "L",       lr |-> "R"],
    [l |-> AllPairsConst, r |-> AllPairsConst, ll |-> "L",       lr |-> "R"],
    [l |-> AllPairsConst, r |-> AllPairsConst, ll |-> "default", lr |-> "default"],
    [l |-> AllPairsConst, r |-> ByValMulti,    ll |-> "L",       lr |-> "R"],
    [l |-> ByValMulti,    r |-> ByValAllPairs, ll |-> "L",       lr |-> "R"],
    [l |-> BadNone,       r |-> ByValMulti,    ll |-> "L",       lr |-> "R"],
    [l |-> ByValSparse,   r |-> ByValMulti,    ll |-> "L",       lr |-> "R"] }

Sides == {"L", "R"}

\* the lists of master records handed to the constructor of the master Indices
MasterLists == {<< >>, << 1, 2 >>, << 1, 3 >>, << 3, 2 >>}

\* Python lists referenced by all-pairs indexes: the shared default argument
\* of Indices.__init__, and one list per caller.
ListIds == {"default", "L", "R"}

VARIABLES
  indices,    \* indices[s]: the sequence of indexes of Indices object s
  lists,      \* lists[id]: contents of the Python list id
  ret,        \* outcome of the last operation
  calls,      \* calls[<<x, y>>]: similarity-function calls in the last compare
  ninserts,   \* number of insert calls on the input Indices so far
  comparisons, \* the PairMap handed to the classifiers
  args        \* the arguments handed to a function of the library

vars == <<indices, lists, ret, calls, ninserts, comparisons, args>>

\* the outcome of an operation: what was called on what, whether it returned
\* ("ok") or raised (the exception's name), and the value returned
Ret(op, level, s, i, mode, status, v) ==
  [op |-> op, level |-> level, side |-> s, idx |-> i, mode |-> mode,
   status |-> status, val |-> v]

\* BucketAppend that leaves a bucket alone when it holds the record already
BucketAppend_Once(buckets, key, o) ==
  IF key \in DOMAIN buckets
    THEN (IF \E n \in 1..Len(buckets[key]) : buckets[key][n] = o
            THEN buckets
            ELSE [buckets EXCEPT ![key] = Append(@, o)])
    ELSE (key :> << o >>) @@ buckets

\* dict.setdefault(key, list()).append(record)
BucketAppend(buckets, key, o) ==
  IF key \in DOMAIN buckets
    THEN [buckets EXCEPT ![key] = Append(@, o)]
    ELSE (key :> << o >>) @@ buckets

\* block.Index.insert: the loop over the keys, from position k on.  Buckets
\* already appended to stay so when a later key raises.
RECURSIVE InsertKeys(_, _, _, _)
InsertKeys(buckets, keys, k, o) ==
  IF k > Len(keys) THEN [buckets |-> buckets, raised |-> FALSE]
  ELSE IF keys[k] = None \/ keys[k] = ""
    THEN [buckets |-> buckets, raised |-> TRUE]
    ELSE InsertKeys(BucketAppend(buckets, keys[k], o), keys, k + 1, o)

BlockInsert(idx, o) == InsertKeys(idx.buckets, makekey(idx.makekey, o), 1, o)

\* block.Index.__init__: insert the records one by one, from position k on;
\* r = [buckets, raised]
RECURSIVE BlockLoad(_, _, _, _)
BlockLoad(kf, r, records, k) ==
  IF k > Len(records) \/ r.raised THEN r
  ELSE BlockLoad(kf, InsertKeys(r.buckets, makekey(kf, records[k]), 1, records[k]),
                 records, k + 1)

\* Indices.__init__(strategy, records): one index per strategy entry, each
\* constructed as idxtype(keyfunc, records)
IndicesInit(strategy, listref, records) ==
  [i \in 1..Len(strategy) |->
     IF strategy[i][1] = "block"
       THEN NewBlock(strategy[i][2],
                     BlockLoad(strategy[i][2], [buckets |-> EmptyDict, raised |-> FALSE],
                               records, 1).buckets)
       ELSE NewAllPairs(listref)]

\* the constructor of some block index raises on a key of some record
InitRaises(strategy, records) ==
  \E i \in 1..Len(strategy) :
     /\ strategy[i][1] = "block"
     /\ BlockLoad(strategy[i][2], [buckets |-> EmptyDict, raised |-> FALSE],
                  records, 1).raised

\* The input Indices is constructed without records and filled by insert;
\* the master Indices is constructed from the list of master records.
Init ==
  /\ \E c \in Constructions, master \in MasterLists :
       /\ c.lr = "default" => master = << >>
       /\ ~ InitRaises(c.r, master)
       /\ indices = [s \in Sides |-> IF s = "L" THEN IndicesInit(c.l, c.ll, << >>)
                                               ELSE IndicesInit(c.r, c.lr, master)]
       /\ lists = [id \in ListIds |-> IF id = c.lr THEN master ELSE << >>]
  /\ ret = Ret("init", "-", "-", 0, "-", "ok", 0)
  /\ calls = EmptyDict
  /\ ninserts = 0
  /\ comparisons = EmptyDict
  /\ args = << >>

\* ----------------------------------------------------------------- insert
\* Indices.insert: forward the record to each index in order, from index i
\* on; st = [idxs, lists, raised]
RECURSIVE InsertAll(_, _, _)
InsertAll(st, i, o) ==
  IF i > Len(st.idxs) \/ st.raised THEN st
  ELSE LET idx == st.idxs[i] IN
    IF idx.type = "block"
      THEN LET r == BlockInsert(idx, o) IN
           InsertAll([idxs |-> [st.idxs EXCEPT ![i].buckets = r.buckets],
                      lists |-> st.lists, raised |-> r.raised], i + 1, o)
      ELSE InsertAll([idxs |-> st.idxs,
                      lists |-> [st.lists EXCEPT ![idx.records] = Append(@, o)],
                      raised |-> FALSE], i + 1, o)

IndicesInsert(s, o) ==
  /\ ninserts < MaxInput
  /\ LET r == InsertAll([idxs |-> indices[s], lists |-> lists, raised |-> FALSE], 1, o) IN
       /\ indices' = [indices EXCEPT ![s] = r.idxs]
       /\ lists' = r.lists
       /\ ret' = Ret("insert", "Indices", s, 0, "-",
                     IF r.raised THEN "ValueError" ELSE "ok", o)
  /\ calls' = EmptyDict
  /\ ninserts' = ninserts + 1
  /\ UNCHANGED << comparisons, args >>

\* ------------------------------------------------------- similarity calls
\* The record comparison handed to compare: the doctest's
\* compare = lambda x, y: 2**-abs(x - y), in tenths, as a 1-component vector
Abs(x) == IF x < 0 THEN 0 - x ELSE x

simfunc(a, b) == << 10 \div (2 ^ Abs(val(a) - val(b))) >>

\* A PairMap is a dict keyed by the tuple (a, b); tuples hash and compare by
\* the values of the records, so its keys are pairs of values.
PairKey(a, b) == << val(a), val(b) >>

BagAdd(bag, p) ==
  IF p \in DOMAIN bag THEN [bag EXCEPT ![p] = @ + 1] ELSE (p :> 1) @@ bag

\* Visit without the cache lookup: compare is called for every pair met
Visit_NoCache(acc, a, b) ==
  [cmp |-> (PairKey(a, b) :> simfunc(a, b)) @@ acc.cmp,
   calls |-> BagAdd(acc.calls, << a, b >>)]

\* if pair not in comparisons: comparisons[pair] = compare(a, b)
\* acc = [cmp |-> the comparisons dict, calls |-> the calls of compare made]
Visit(acc, a, b) ==
  IF PairKey(a, b) \in DOMAIN acc.cmp THEN acc
  ELSE [cmp |-> (PairKey(a, b) :> simfunc(a, b)) @@ acc.cmp,
        calls |-> BagAdd(acc.calls, << a, b >>)]

NewAcc == [cmp |-> EmptyDict, calls |-> EmptyDict]

\* list.sort(): stable, ordered by the records' values
RECURSIVE InsertSorted(_, _)
InsertSorted(sorted, o) ==
  IF sorted = << >> THEN << o >>
  ELSE IF val(sorted[Len(sorted)]) <= val(o) THEN Append(sorted, o)
  ELSE Append(InsertSorted(SubSeq(sorted, 1, Len(sorted) - 1), o), sorted[Len(sorted)])

RECURSIVE SortFrom(_, _, _)
SortFrom(sorted, recs, k) ==
  IF k > Len(recs) THEN sorted ELSE SortFrom(InsertSorted(sorted, recs[k]), recs, k + 1)

\* Sort that leaves the list in insertion order
Sort_Unsorted(recs) == recs

Sort(recs) == SortFrom(<< >>, recs, 1)

\* ------------------------------------------------------------ block.Index
\* SelfLoop without the `a is b` test
RECURSIVE SelfLoop_NoIdentity(_, _, _, _)
SelfLoop_NoIdentity(acc, records, j, i) ==
  IF j > Len(records) THEN acc
  ELSE IF i >= j THEN SelfLoop_NoIdentity(acc, records, j + 1, 1)
  ELSE SelfLoop_NoIdentity(Visit(acc, records[i], records[j]), records, j, i + 1)

\* the double loop of _compare_self over one bucket (1-based positions)
RECURSIVE SelfLoop(_, _, _, _)
SelfLoop(acc, records, j, i) ==
  IF j > Len(records) THEN acc
  ELSE IF i >= j THEN SelfLoop(acc, records, j + 1, 1)
  ELSE SelfLoop(IF records[i] = records[j] THEN acc
                ELSE Visit(acc, records[i], records[j]),
                records, j, i + 1)

\* _compare_self: for every bucket, sort it in place, then compare its pairs.
\* st = [buckets, acc]; k is the position in the dict's iteration order.
RECURSIVE CompareSelfFrom(_, _)
CompareSelfFrom(st, k) ==
  IF k > Len(KeyOrder) THEN st
  ELSE IF KeyOrder[k] \notin DOMAIN st.buckets THEN CompareSelfFrom(st, k + 1)
  ELSE LET sorted == Sort(st.buckets[KeyOrder[k]]) IN
       CompareSelfFrom([buckets |-> [st.buckets EXCEPT ![KeyOrder[k]] = sorted],
                        acc |-> SelfLoop(st.acc, sorted, 1, 1)], k + 1)

\* _compare_self that starts from an empty dict whatever it is handed
compare_self_FreshCache(buckets, acc) ==
  CompareSelfFrom([buckets |-> buckets, acc |-> NewAcc], 1)

compare_self(buckets, acc) == CompareSelfFrom([buckets |-> buckets, acc |-> acc], 1)

\* OtherLoop building the pair as (rec2, rec1)
RECURSIVE OtherLoop_Swapped(_, _, _, _, _)
OtherLoop_Swapped(acc, recs1, recs2, i, j) ==
  IF i > Len(recs1) THEN acc
  ELSE IF j > Len(recs2) THEN OtherLoop_Swapped(acc, recs1, recs2, i + 1, 1)
  ELSE OtherLoop_Swapped(Visit(acc, recs2[j], recs1[i]), recs1, recs2, i, j + 1)

\* the Cartesian product of two buckets in _compare_other
RECURSIVE OtherLoop(_, _, _, _, _)
OtherLoop(acc, recs1, recs2, i, j) ==
  IF i > Len(recs1) THEN acc
  ELSE IF j > Len(recs2) THEN OtherLoop(acc, recs1, recs2, i + 1, 1)
  ELSE OtherLoop(Visit(acc, recs1[i], recs2[j]), recs1, recs2, i, j + 1)

\* _compare_other: the keys of self that are keys of other
RECURSIVE CompareOtherFrom(_, _, _, _)
CompareOtherFrom(acc, buckets1, buckets2, k) ==
  IF k > Len(KeyOrder) THEN acc
  ELSE IF KeyOrder[k] \in DOMAIN buckets1 /\ KeyOrder[k] \in DOMAIN buckets2
    THEN CompareOtherFrom(OtherLoop(acc, buckets1[KeyOrder[k]], buckets2[KeyOrder[k]], 1, 1),
                          buckets1, buckets2, k + 1)
    ELSE CompareOtherFrom(acc, buckets1, buckets2, k + 1)

compare_other(buckets1, buckets2, acc) == CompareOtherFrom(acc, buckets1, buckets2, 1)

\* CountSelfFrom counting only the buckets with more than two records
RECURSIVE CountSelfFrom_Over2(_, _)
CountSelfFrom_Over2(buckets, k) ==
  IF k > Len(KeyOrder) THEN 0
  ELSE (IF KeyOrder[k] \in DOMAIN buckets /\ Len(buckets[KeyOrder[k]]) > 2
          THEN (Len(buckets[KeyOrder[k]]) * (Len(buckets[KeyOrder[k]]) - 1)) \div 2
          ELSE 0)
       + CountSelfFrom_Over2(buckets, k + 1)

\* sum of n(n-1)//2 over the buckets with more than one record
RECURSIVE CountSelfFrom(_, _)
CountSelfFrom(buckets, k) ==
  IF k > Len(KeyOrder) THEN 0
  ELSE (IF KeyOrder[k] \in DOMAIN buckets /\ Len(buckets[KeyOrder[k]]) > 1
          THEN (Len(buckets[KeyOrder[k]]) * (Len(buckets[KeyOrder[k]]) - 1)) \div 2
          ELSE 0)
       + CountSelfFrom(buckets, k + 1)

\* sum of len(self[key]) * len(other[key]) over the keys of self in other
RECURSIVE CountOtherFrom(_, _, _)
CountOtherFrom(buckets1, buckets2, k) ==
  IF k > Len(KeyOrder) THEN 0
  ELSE (IF KeyOrder[k] \in DOMAIN buckets1 /\ KeyOrder[k] \in DOMAIN buckets2
          THEN Len(buckets1[KeyOrder[k]]) * Len(buckets2[KeyOrder[k]])
          ELSE 0)
       + CountOtherFrom(buckets1, buckets2, k + 1)

\* ---------------------------------------------------------- allpairs.Index
\* within: records.sort(), then every pair of positions j < i, with no test
\* of identity
RECURSIVE WithinLoop(_, _, _, _)
WithinLoop(acc, records, i, j) ==
  IF i > Len(records) THEN acc
  ELSE IF j >= i THEN WithinLoop(acc, records, i + 1, 1)
  ELSE WithinLoop(Visit(acc, records[j], records[i]), records, i, j + 1)

within(records, acc) ==
  [records |-> Sort(records), acc |-> WithinLoop(acc, Sort(records), 1, 1)]

\* between: every pair of a record of records1 and a record of records2
RECURSIVE BetweenLoop(_, _, _, _, _)
BetweenLoop(acc, records1, records2, i, j) ==
  IF i > Len(records1) THEN acc
  ELSE IF j > Len(records2) THEN BetweenLoop(acc, records1, records2, i + 1, 1)
  ELSE BetweenLoop(Visit(acc, records1[i], records2[j]), records1, records2, i, j + 1)

between(records1, records2, acc) == BetweenLoop(acc, records1, records2, 1, 1)

\* --------------------------------------------------- operations on indexes
\* An index object is named by its Indices object and its position in it.
NoRef == << "-", 0 >>            \* other=None

Peer(s) == IF s = "L" THEN "R" ELSE "L"

\* the indexes that operations are called on: those of the input Indices
IndexRefs == {<< "L", i >> : i \in 1..2}

\* Index.compare(simfunc, other, comparisons) on the index me, threading
\* st = [indices, lists, acc, status] through the call
IndexCompareSt(st, me, other) ==
  LET self == st.indices[me[1]][me[2]] IN
  IF self.type = "block"
    THEN IF other = NoRef \/ other = me
      THEN LET r == compare_self(self.buckets, st.acc) IN
           [st EXCEPT !.indices[me[1]][me[2]].buckets = r.buckets, !.acc = r.acc]
      ELSE LET oth == st.indices[other[1]][other[2]] IN
           IF oth.type = "block"
             THEN [st EXCEPT !.acc = compare_other(self.buckets, oth.buckets, st.acc)]
             \* other.iterkeys() on an object that is not a dict
             ELSE IF DOMAIN self.buckets = {} THEN st
                  ELSE [st EXCEPT !.status = "AttributeError"]
    ELSE IF other = NoRef \/ other = me
      THEN LET r == within(st.lists[self.records], st.acc) IN
           [st EXCEPT !.lists[self.records] = r.records, !.acc = r.acc]
      ELSE LET oth == st.indices[other[1]][other[2]] IN
           IF oth.type = "allpairs"
             THEN [st EXCEPT !.acc = between(st.lists[self.records],
                                             st.lists[oth.records], st.acc)]
             \* other.records on a block index
             ELSE [st EXCEPT !.status = "AttributeError"]

NewSt == [indices |-> indices, lists |-> lists, acc |-> NewAcc, status |-> "ok"]

Min(a, b) == IF a < b THEN a ELSE b

\* Indices.compare, self-mode: every index in order, one shared cache
RECURSIVE IndicesCompareSelfFrom(_, _, _)
IndicesCompareSelfFrom(st, s, i) ==
  IF i > Len(st.indices[s]) THEN st
  ELSE IndicesCompareSelfFrom(IndexCompareSt(st, << s, i >>, NoRef), s, i + 1)

\* Indices.compare, cross-mode, without the type check
RECURSIVE IndicesCompareCrossFrom_NoCheck(_, _, _, _)
IndicesCompareCrossFrom_NoCheck(st, s, o, i) ==
  IF i > Min(Len(st.indices[s]), Len(st.indices[o])) \/ st.status # "ok" THEN st
  ELSE IndicesCompareCrossFrom_NoCheck(IndexCompareSt(st, << s, i >>, << o, i >>), s, o, i + 1)

\* Indices.compare, cross-mode: zip of the two index lists, with a type check
RECURSIVE IndicesCompareCrossFrom(_, _, _, _)
IndicesCompareCrossFrom(st, s, o, i) ==
  IF i > Min(Len(st.indices[s]), Len(st.indices[o])) \/ st.status # "ok" THEN st
  ELSE IF st.indices[s][i].type # st.indices[o][i].type
    THEN [st EXCEPT !.status = "TypeError"]
    ELSE IndicesCompareCrossFrom(IndexCompareSt(st, << s, i >>, << o, i >>), s, o, i + 1)

\* block.Index.count(other)
\* `not other` holds of None and of an empty dict, so of an empty block index
BlockCount(self, other, same) ==
  IF other.type = "None" \/ (other.type = "block" /\ DOMAIN other.buckets = {}) \/ same
    THEN [status |-> "ok", val |-> CountSelfFrom(self.buckets, 1)]
  ELSE IF other.type = "block"
    THEN [status |-> "ok", val |-> CountOtherFrom(self.buckets, other.buckets, 1)]
  \* `key in other` on an object that is not a container
  ELSE IF DOMAIN self.buckets = {} THEN [status |-> "ok", val |-> 0]
  ELSE [status |-> "TypeError", val |-> 0]

\* allpairs.Index.count(other)
AllPairsCount(self, other, same) ==
  IF other.type = "None" \/ same
    THEN [status |-> "ok",
          val |-> (Len(lists[self.records]) * (Len(lists[self.records]) + 1)) \div 2]
  ELSE IF other.type = "allpairs"
    THEN [status |-> "ok", val |-> Len(lists[self.records]) * Len(lists[other.records])]
  ELSE [status |-> "AttributeError", val |-> 0]

Mode(me, other) == IF other = NoRef \/ other = me THEN "self" ELSE "cross"

\* index.compare(simfunc, other) on one index, without a cache argument
IndexCompare(me, other) ==
  /\ me[2] <= Len(indices[me[1]])
  /\ other # NoRef => other[2] <= Len(indices[other[1]])
  /\ LET st == IndexCompareSt(NewSt, me, other) IN
       /\ indices' = st.indices
       /\ lists' = st.lists
       /\ calls' = st.acc.calls
       /\ ret' = Ret("compare", "Index", me[1], me[2], Mode(me, other), st.status,
                     IF st.status = "ok" THEN st.acc.cmp ELSE EmptyDict)
  /\ UNCHANGED << ninserts, comparisons, args >>

\* the caches handed to compare: entries for pairs the indexes may hold and
\* for one they do not, with similarity vectors no comparison yields
Caches ==
  { EmptyDict,
    (<< 1, 1 >> :> << 99 >>),
    (<< 1, 2 >> :> << 99 >>),
    (<< 1, 1 >> :> << 99 >>) @@ (<< 1, 2 >> :> << 98 >>),
    (<< 9, 9 >> :> << 97 >>) }

\* index.compare(simfunc, other, comparisons) on one index, with a cache; one
\* such compare is made in a run
IndexCompareCached(me, other, cache) ==
  /\ args = << >>
  /\ me[2] <= Len(indices[me[1]])
  /\ other # NoRef => other[2] <= Len(indices[other[1]])
  /\ LET st == IndexCompareSt([NewSt EXCEPT !.acc.cmp = cache], me, other) IN
       /\ indices' = st.indices
       /\ lists' = st.lists
       /\ calls' = st.acc.calls
       /\ ret' = Ret("compare", "Index", me[1], me[2], Mode(me, other), st.status,
                     IF st.status = "ok" THEN st.acc.cmp ELSE EmptyDict)
  /\ args' = [fn |-> "compare", other |-> other, comparisons |-> cache]
  /\ UNCHANGED << ninserts, comparisons >>

\* index.count(other) on one index
IndexCount(me, other) ==
  /\ me[2] <= Len(indices[me[1]])
  /\ other # NoRef => other[2] <= Len(indices[other[1]])
  /\ LET self == indices[me[1]][me[2]]
         oth == IF other = NoRef THEN NoIndex ELSE indices[other[1]][other[2]]
         r == IF self.type = "block" THEN BlockCount(self, oth, other = me)
                                     ELSE AllPairsCount(self, oth, other = me) IN
       ret' = Ret("count", "Index", me[1], me[2], Mode(me, other), r.status, r.val)
  /\ calls' = EmptyDict
  /\ UNCHANGED << indices, lists, ninserts, comparisons, args >>

\* indices.compare(simfunc, other)
IndicesCompare(s, other) ==
  /\ LET st == IF other = "None" \/ other = s
                 THEN IndicesCompareSelfFrom(NewSt, s, 1)
                 ELSE IndicesCompareCrossFrom(NewSt, s, other, 1) IN
       /\ indices' = st.indices
       /\ lists' = st.lists
       /\ calls' = st.acc.calls
       /\ ret' = Ret("compare", "Indices", s, 0,
                     IF other = "None" \/ other = s THEN "self" ELSE "cross", st.status,
                     IF st.status = "ok" THEN st.acc.cmp ELSE EmptyDict)
  /\ UNCHANGED << ninserts, comparisons, args >>

\* the `other` arguments tried on an index: None, the index itself, and the
\* index at the same position of the other Indices object
Others(me) == {NoRef, me, << Peer(me[1]), me[2] >>}

Next ==
  \/ \E o \in Objs : IndicesInsert("L", o)
  \/ \E other \in {"None"} \cup Sides : IndicesCompare("L", other)
  \/ \E me \in IndexRefs : \E other \in Others(me) : IndexCompare(me, other)
  \/ \E me \in IndexRefs : \E other \in Others(me) : IndexCount(me, other)

Spec == Init /\ [][Next]_vars

\* inserts, and compares of one index that are handed a cache
NextCache ==
  \/ \E o \in Objs : IndicesInsert("L", o)
  \/ \E me \in IndexRefs : \E other \in Others(me) : \E cache \in Caches :
        IndexCompareCached(me, other, cache)

SpecCache == Init /\ [][NextCache]_vars

\* ============================================================== classifiers
\* Similarity vectors are sequences of components; a component is << >> for
\* None and << x >> for the similarity x, in tenths.  Centroids have rational
\* components << n, d >> (n/d tenths), or << >> for None.
NoneC == << >>

ToRat(c) == IF c = NoneC THEN NoneC ELSE << c[1], 1 >>

RatVec(v) == [i \in 1..Len(v) |-> ToRat(v[i])]

\* rational arithmetic on << n, d >> with d > 0
RAdd(x, y) == << x[1] * y[2] + y[1] * x[2], x[2] * y[2] >>
RLess(x, y) == x[1] * y[2] < y[1] * x[2]

\* distance.L2 squared: the sum of (a-b)**2 over the components where neither
\* vector has None; `distance(x) < distance(y)` is decided on the squares
RECURSIVE L2sqFrom(_, _, _)
L2sqFrom(vec1, vec2, i) ==
  IF i > Len(vec1) THEN << 0, 1 >>
  ELSE IF vec1[i] = NoneC \/ vec2[i] = NoneC THEN L2sqFrom(vec1, vec2, i + 1)
  ELSE LET diff == vec1[i][1] * vec2[i][2] - vec2[i][1] * vec1[i][2]
           den == vec1[i][2] * vec2[i][2] IN
       RAdd(<< diff * diff, den * den >>, L2sqFrom(vec1, vec2, i + 1))

L2sq(vec1, vec2) == L2sqFrom(vec1, vec2, 1)

\* math.log10((distance(v, low) + 0.1) / (distance(v, high) + 0.1)), kept as
\* the two squared distances it is computed from
Score(low2, high2) == [low2 |-> low2, high2 |-> high2]

\* the pairs and vectors classified: the pairs of the doctests
PairKeys == {<< 1, 2 >>, << 2, 3 >>, << 3, 4 >>, << 4, 5 >>}
AllRecords == << 1, 2, 3, 4, 5 >>

\* the similarity vectors of the doctests of kmeans.classify, and None
Vectors1 == {<< <<5>> >>, << <<8>> >>, << <<9>> >>, << <<0>> >>, << NoneC >>}
Vectors2 == {<< <<5>>, NoneC >>, << <<8>>, <<7>> >>, << <<9>>, <<5>> >>, << <<0>>, <<5>> >>}

\* vectors with None components on which k-means needs three passes, or keeps
\* changing assignments until the iteration cap
Vectors3 == {<< NoneC, <<0>> >>, << NoneC, <<7>> >>, << <<0>>, <<10>> >>, << <<7>>, <<3>> >>}

MaxPairs == 3      \* number of pairs in a PairMap handed to a classifier

PairMaps ==
  UNION {[S -> Vectors1] \cup [S -> Vectors2] \cup [S -> Vectors3] :
           S \in {T \in SUBSET PairKeys : Cardinality(T) <= MaxPairs}}

\* ------------------------------------------------------- kmeans.classify
DefaultMaxIter == 10

\* max(x[i] for x in comparisons.itervalues() if x[i] is not None)
Present(cmp, i) == {cmp[k][i][1] : k \in {q \in DOMAIN cmp : cmp[q][i] # NoneC}}

MaxOf(S) == CHOOSE x \in S : \A y \in S : y <= x
MinOf(S) == CHOOSE x \in S : \A y \in S : x <= y

\* the mean of component i over the vectors of class c: safe_div(total, count)
RECURSIVE SumInts(_)
SumInts(B) ==
  IF B = {} THEN 0
  ELSE LET e == CHOOSE x \in B : TRUE IN e[2] + SumInts(B \ {e})

\* a dict or list built entry by entry
RECURSIVE Filled(_, _)
Filled(f, S) ==
  IF S = {} THEN EmptyDict
  ELSE LET k == CHOOSE x \in S : TRUE IN (k :> f[k]) @@ Filled(f, S \ {k})

Centroid_CountsMissing(cmp, assign, c, vlen) ==
  Filled([i \in 1..vlen |->
            LET as == {k \in DOMAIN cmp : assign[k] = c}
                ks == {k \in as : cmp[k][i] # NoneC} IN
            IF Cardinality(as) > 0
              THEN << SumInts({<< k, cmp[k][i][1] >> : k \in ks}), Cardinality(as) >>
              ELSE NoneC], 1..vlen)

Centroid(cmp, assign, c, vlen) ==
  Filled([i \in 1..vlen |->
            LET ks == {k \in DOMAIN cmp : assign[k] = c /\ cmp[k][i] # NoneC} IN
            IF Cardinality(ks) > 0
              THEN << SumInts({<< k, cmp[k][i][1] >> : k \in ks}), Cardinality(ks) >>
              ELSE NoneC], 1..vlen)

\* one pass of the while loop: assign every vector, then move the centroids
KPass_Swapped(cmp, assign, high, low, vlen) ==
  LET new == Filled([k \in DOMAIN cmp |->
                       RLess(L2sq(RatVec(cmp[k]), low), L2sq(RatVec(cmp[k]), high))],
                    DOMAIN cmp) IN
  [assign |-> new,
   n_changed |-> Cardinality({k \in DOMAIN cmp : new[k] # assign[k]}),
   high |-> Centroid(cmp, new, TRUE, vlen),
   low |-> Centroid(cmp, new, FALSE, vlen)]

KPass(cmp, assign, high, low, vlen) ==
  LET new == Filled([k \in DOMAIN cmp |->
                       RLess(L2sq(RatVec(cmp[k]), high), L2sq(RatVec(cmp[k]), low))],
                    DOMAIN cmp) IN
  [assign |-> new,
   n_changed |-> Cardinality({k \in DOMAIN cmp : new[k] # assign[k]}),
   high |-> Centroid(cmp, new, TRUE, vlen),
   low |-> Centroid(cmp, new, FALSE, vlen)]

\* while n_changed > 0 and iters < maxiter
KContinue_FixedPasses(st, maxiter) == st.iters < maxiter

KContinue(st, maxiter) == st.n_changed > 0 /\ st.iters < maxiter

RECURSIVE KLoop(_, _, _, _)
KLoop(cmp, st, vlen, maxiter) ==
  IF KContinue(st, maxiter)
    THEN LET p == KPass(cmp, st.assign, st.high, st.low, vlen) IN
         KLoop(cmp, [assign |-> p.assign, n_changed |-> p.n_changed, high |-> p.high,
                     low |-> p.low, iters |-> st.iters + 1], vlen, maxiter)
    ELSE st

\* k, v = comparisons.popitem(): some item, and the dict without it
popitem(cmp) ==
  LET k == CHOOSE q \in DOMAIN cmp : TRUE IN
  [k |-> k, v |-> cmp[k], rest |-> [q \in DOMAIN cmp \ {k} |-> cmp[q]]]

\* comparisons[k] = v
setitem(cmp, k, v) == (k :> v) @@ cmp

\* what kmeans.classify leaves in the dict it was handed: the item popped to
\* read the vector length, put back
kmeans_leaves_NoPutBack(cmp) ==
  IF Cardinality(DOMAIN cmp) = 0 THEN cmp ELSE popitem(cmp).rest

kmeans_leaves(cmp) ==
  IF Cardinality(DOMAIN cmp) = 0 THEN cmp
  ELSE LET p == popitem(cmp) IN setitem(p.rest, p.k, p.v)

\* the state of the loop when it has not run
NoLoop == [assign |-> EmptyDict, n_changed |-> 1, high |-> << >>, low |-> << >>,
           iters |-> 0]

\* kmeans.classify(comparisons, L2, maxiter); km is the state of the loop at
\* its end
kmeans_classify(cmp, maxiter) ==
  IF Cardinality(DOMAIN cmp) = 0
    THEN [status |-> "ok", type |-> "set", matches |-> EmptyDict, nonmatches |-> EmptyDict,
          km |-> NoLoop]
  ELSE LET vlen == Len(popitem(cmp).v) IN
    \* max() and min() of an empty sequence
    IF \E i \in 1..vlen : Present(cmp, i) = {}
      THEN [status |-> "ValueError", type |-> "-", matches |-> EmptyDict,
            nonmatches |-> EmptyDict, km |-> NoLoop]
    ELSE LET st == KLoop(cmp,
                     [assign |-> [k \in DOMAIN cmp |-> FALSE], n_changed |-> 1,
                      high |-> [i \in 1..vlen |-> << MaxOf(Present(cmp, i)), 1 >>],
                      low |-> [i \in 1..vlen |-> << MinOf(Present(cmp, i)), 1 >>],
                      iters |-> 0], vlen, maxiter)
             score == [k \in DOMAIN cmp |->
                         Score(L2sq(RatVec(cmp[k]), st.low), L2sq(RatVec(cmp[k]), st.high))] IN
         [status |-> "ok", type |-> "dict",
          matches |-> [k \in {q \in DOMAIN cmp : st.assign[q]} |-> score[k]],
          nonmatches |-> [k \in {q \in DOMAIN cmp : ~ st.assign[q]} |-> score[k]],
          km |-> st]

\* ------------------------------------------------------ nearest.classify
\* Rules handed to the classifiers; a rule returns True, False, None or
\* something else.  "NoRule" is rule=None.
Rules == {"NoRule", "Pair45", "ByFirst", "NotBool"}

rule(name, pair, vec) ==
  CASE name = "Pair45"  -> IF pair = << 4, 5 >> THEN "True" ELSE "None"
    [] name = "ByFirst" -> IF pair[1] = 1 THEN "True"
                           ELSE IF pair[1] = 2 THEN "False" ELSE "None"
    [] name = "NotBool" -> IF pair[1] = 1 THEN "Other" ELSE "None"
    [] OTHER            -> "None"

\* the example vectors tried: none, the doctest's 1-D and 2-D examples
Examples ==
  { [m |-> << >>, n |-> << >>],
    [m |-> << << <<10>> >> >>, n |-> << << <<4>> >> >>],
    [m |-> << << <<10>>, <<8>> >>, << <<10>>, NoneC >> >>, n |-> << << <<3>>, <<3>> >> >>] }

\* scores given by a rule: 1.0 and 0.0
RuleMatch == [fixed |-> "1.0"]
RuleNonMatch == [fixed |-> "0.0"]

RMin(S) == CHOOSE x \in S : \A y \in S : ~ RLess(y, x)

\* min(distance(comparison, example) for example in examples), squared
NearestSq(vec, examples) ==
  RMin({L2sq(RatVec(vec), RatVec(examples[n])) : n \in 1..Len(examples)})

NearestOne_FalseAsNone(pair, vec, ex, rulename) ==
  LET judge == rule(rulename, pair, vec) IN
  IF judge = "None" \/ judge = "False"
    THEN IF Len(ex.m) = 0 \/ Len(ex.n) = 0
           THEN [to |-> "ValueError", score |-> RuleNonMatch]        \* min() of nothing
         ELSE IF \E n \in 1..Len(ex.m) : Len(ex.m[n]) # Len(vec)
           THEN [to |-> "AssertionError", score |-> RuleNonMatch]    \* assert in L2
         ELSE IF \E n \in 1..Len(ex.n) : Len(ex.n[n]) # Len(vec)
           THEN [to |-> "AssertionError", score |-> RuleNonMatch]
         ELSE LET match_dist == NearestSq(vec, ex.m)
                  nonmatch_dist == NearestSq(vec, ex.n) IN
              [to |-> IF RLess(match_dist, nonmatch_dist) THEN "match" ELSE "nonmatch",
               score |-> Score(nonmatch_dist, match_dist)]
  ELSE IF judge = "True" THEN [to |-> "match", score |-> RuleMatch]
  ELSE IF judge = "False" THEN [to |-> "nonmatch", score |-> RuleNonMatch]
  ELSE [to |-> "ValueError", score |-> RuleNonMatch]

\* what the loop body does with one pair: "raise", "match" or "nonmatch",
\* with the score
NearestOne(pair, vec, ex, rulename) ==
  LET judge == rule(rulename, pair, vec) IN
  IF judge = "None"
    THEN IF Len(ex.m) = 0 \/ Len(ex.n) = 0
           THEN [to |-> "ValueError", score |-> RuleNonMatch]        \* min() of nothing
         ELSE IF \E n \in 1..Len(ex.m) : Len(ex.m[n]) # Len(vec)
           THEN [to |-> "AssertionError", score |-> RuleNonMatch]    \* assert in L2
         ELSE IF \E n \in 1..Len(ex.n) : Len(ex.n[n]) # Len(vec)
           THEN [to |-> "AssertionError", score |-> RuleNonMatch]
         ELSE LET match_dist == NearestSq(vec, ex.m)
                  nonmatch_dist == NearestSq(vec, ex.n) IN
              [to |-> IF RLess(match_dist, nonmatch_dist) THEN "match" ELSE "nonmatch",
               score |-> Score(nonmatch_dist, match_dist)]
  ELSE IF judge = "True" THEN [to |-> "match", score |-> RuleMatch]
  ELSE IF judge = "False" THEN [to |-> "nonmatch", score |-> RuleNonMatch]
  ELSE [to |-> "ValueError", score |-> RuleNonMatch]

Errors == {"ValueError", "AssertionError"}

\* nearest.classify(comparisons, ex_matches, ex_nonmatches, L2, rule)
nearest_classify(cmp, ex, rulename) ==
  LET one == [k \in DOMAIN cmp |-> NearestOne(k, cmp[k], ex, rulename)] IN
  IF \E k \in DOMAIN cmp : one[k].to \in Errors
    THEN [status |-> one[CHOOSE k \in DOMAIN cmp : one[k].to \in Errors].to, type |-> "-",
          matches |-> EmptyDict, nonmatches |-> EmptyDict]
    ELSE [status |-> "ok", type |-> "dict",
          matches |-> [k \in {q \in DOMAIN cmp : one[q].to = "match"} |-> one[k].score],
          nonmatches |-> [k \in {q \in DOMAIN cmp : one[q].to = "nonmatch"} |-> one[k].score]]

\* ---------------------------------------------------- rulebased.classify
rulebased_classify_NoneAsFalse(rulename, cmp) ==
  LET ismatch == [k \in DOMAIN cmp |-> rule(rulename, k, cmp[k])] IN
  IF \E k \in DOMAIN cmp : ismatch[k] = "Other"
    THEN [status |-> "ValueError", type |-> "-", matches |-> EmptyDict,
          nonmatches |-> EmptyDict]
    ELSE [status |-> "ok", type |-> "dict",
          matches |-> [k \in {q \in DOMAIN cmp : ismatch[q] = "True"} |-> RuleMatch],
          nonmatches |-> [k \in {q \in DOMAIN cmp : ismatch[q] # "True"} |-> RuleNonMatch]]

\* classify_bool, then scores 1.0 for the matches and 0.0 for the non-matches
rulebased_classify(rulename, cmp) ==
  LET ismatch == [k \in DOMAIN cmp |-> rule(rulename, k, cmp[k])] IN
  IF \E k \in DOMAIN cmp : ismatch[k] = "Other"
    THEN [status |-> "ValueError", type |-> "-", matches |-> EmptyDict,
          nonmatches |-> EmptyDict]
    ELSE [status |-> "ok", type |-> "dict",
          matches |-> [k \in {q \in DOMAIN cmp : ismatch[q] = "True"} |-> RuleMatch],
          nonmatches |-> [k \in {q \in DOMAIN cmp : ismatch[q] = "False"} |-> RuleNonMatch]]

\* ----------------------------------------------------------- recordgroups
\* a set of records as a list in ascending order (newgroup.sort())
RECURSIVE Ascending(_)
Ascending(S) ==
  IF S = {} THEN << >>
  ELSE LET m == CHOOSE x \in S : \A y \in S : x <= y IN
       << m >> \o Ascending(S \ {m})

\* the keys of a map of pairs as a list, in ascending order of the pairs
RECURSIVE KeyList(_)
KeyList(S) ==
  IF S = {} THEN << >>
  ELSE LET m == CHOOSE x \in S :
                  \A y \in S : x[1] < y[1] \/ (x[1] = y[1] /\ x[2] <= y[2]) IN
       << m >> \o KeyList(S \ {m})

\* adjacency_list: every pair appends each node to the other's neighbours
RECURSIVE adjacency_list_from(_, _, _)
adjacency_list_from(neighbours, nodepairs, k) ==
  IF k > Len(nodepairs) THEN neighbours
  ELSE LET node1 == nodepairs[k][1]
           node2 == nodepairs[k][2]
           n1 == IF node1 \in DOMAIN neighbours
                   THEN [neighbours EXCEPT ![node1] = Append(@, node2)]
                   ELSE (node1 :> << node2 >>) @@ neighbours
           n2 == IF node2 \in DOMAIN n1
                   THEN [n1 EXCEPT ![node2] = Append(@, node1)]
                   ELSE (node2 :> << node1 >>) @@ n1 IN
       adjacency_list_from(n2, nodepairs, k + 1)

adjacency_list(nodepairs) == adjacency_list_from(EmptyDict, nodepairs, 1)

\* the while loop of components: breadth-first search from the queue
RECURSIVE bfs(_, _, _, _)
RECURSIVE bfs_AllNodes(_, _, _, _)
bfs_AllNodes(adjlist, queue, visited, newgroup) ==
  IF Len(queue) = 0 THEN [visited |-> visited, newgroup |-> newgroup]
  ELSE IF Head(queue) \notin visited
    THEN bfs_AllNodes(adjlist, Tail(queue) \o Ascending(DOMAIN adjlist),
                      visited \cup {Head(queue)}, Append(newgroup, Head(queue)))
    ELSE bfs_AllNodes(adjlist, Tail(queue), visited, newgroup)

bfs(adjlist, queue, visited, newgroup) ==
  IF Len(queue) = 0 THEN [visited |-> visited, newgroup |-> newgroup]
  ELSE IF Head(queue) \notin visited
    THEN bfs(adjlist, Tail(queue) \o adjlist[Head(queue)], visited \cup {Head(queue)},
             Append(newgroup, Head(queue)))
    ELSE bfs(adjlist, Tail(queue), visited, newgroup)

\* the for loop of components over the nodes, from position k on
RECURSIVE components_from(_, _, _, _, _)
RECURSIVE components_from_NoSkip(_, _, _, _, _)
components_from_NoSkip(adjlist, nodes, k, visited, groups) ==
  IF k > Len(nodes) THEN groups
  ELSE LET r == bfs(adjlist, << nodes[k] >>, visited, << >>) IN
       components_from_NoSkip(adjlist, nodes, k + 1, r.visited,
                              Append(groups, Ascending({r.newgroup[n] : n \in 1..Len(r.newgroup)})))

components_from(adjlist, nodes, k, visited, groups) ==
  IF k > Len(nodes) THEN groups
  ELSE IF nodes[k] \in visited THEN components_from(adjlist, nodes, k + 1, visited, groups)
  ELSE LET r == bfs(adjlist, << nodes[k] >>, visited, << >>) IN
       components_from(adjlist, nodes, k + 1, r.visited,
                       Append(groups, Ascending({r.newgroup[n] : n \in 1..Len(r.newgroup)})))

components(adjlist) ==
  components_from(adjlist, Ascending(DOMAIN adjlist), 1, {}, << >>)

\* singles_and_groups(matches, allrecords)
singles_and_groups(matches, allrecords) ==
  LET adjlist == adjacency_list(matches) IN
  [singles |-> SelectSeq(allrecords, LAMBDA rec : rec \notin DOMAIN adjlist),
   groups |-> components(adjlist)]

\* ------------------------------------------- operations of the classifiers
InitClassify ==
  /\ comparisons \in PairMaps
  /\ args = << >>
  /\ indices = [s \in Sides |-> << >>]
  /\ lists = [id \in ListIds |-> << >>]
  /\ ret = Ret("init", "-", "-", 0, "-", "ok", 0)
  /\ calls = EmptyDict
  /\ ninserts = 0

\* The driver classifies the comparisons of a run once (linkcsv.py), and
\* then groups the matches.
Unclassified == ret.op = "init"

\* the outcome of a classifier, with the rule and the examples it was given
ClassifyRet(op, r, rulename, ex) ==
  Ret(op, "-", "-", 0, "-", r.status,
      [type |-> r.type, matches |-> r.matches, nonmatches |-> r.nonmatches,
       rule |-> rulename, ex |-> ex])

\* kmeans.classify(comparisons, L2, maxiter); the outcome also tells maxiter
\* and the state of the loop at its end, and args the dict as it was handed
KmeansClassify(maxiter) ==
  /\ Unclassified
  /\ LET r == kmeans_classify(comparisons, maxiter)
         c == ClassifyRet("kmeans", r, "-", << >>) IN
       ret' = [c EXCEPT !.val = ("maxiter" :> maxiter) @@ ("km" :> r.km) @@ c.val]
  /\ comparisons' = kmeans_leaves(comparisons)
  /\ args' = [fn |-> "kmeans", comparisons |-> comparisons]
  /\ UNCHANGED << indices, lists, calls, ninserts >>

NearestClassify(ex, rulename) ==
  /\ Unclassified
  /\ ret' = ClassifyRet("nearest", nearest_classify(comparisons, ex, rulename), rulename, ex)
  /\ args' = [fn |-> "nearest", comparisons |-> comparisons]
  /\ UNCHANGED << comparisons, indices, lists, calls, ninserts >>

RulebasedClassify(rulename) ==
  /\ Unclassified
  /\ ret' = ClassifyRet("rulebased", rulebased_classify(rulename, comparisons), rulename, << >>)
  /\ UNCHANGED << comparisons, indices, lists, calls, ninserts, args >>

\* the driver's grouping step: singles_and_groups on the matches of the last
\* classification; iterating a dict or a set yields its keys
SinglesAndGroups(allrecords) ==
  /\ ret.op \in {"kmeans", "nearest", "rulebased"} /\ ret.status = "ok"
  /\ LET matches == KeyList(DOMAIN ret.val.matches)
         r == singles_and_groups(matches, allrecords) IN
       ret' = Ret("singles_and_groups", "-", "-", 0, "-", "ok",
                  [matches |-> matches, allrecords |-> allrecords,
                   singles |-> r.singles, groups |-> r.groups])
  /\ UNCHANGED << comparisons, indices, lists, calls, ninserts, args >>

NextClassify ==
  \/ \E maxiter \in {1, 2, DefaultMaxIter} : KmeansClassify(maxiter)
  \/ \E ex \in Examples, rulename \in Rules : NearestClassify(ex, rulename)
  \/ \E rulename \in Rules \ {"NoRule"} : RulebasedClassify(rulename)
  \/ \E allrecords \in {<< >>, AllRecords} : SinglesAndGroups(allrecords)

SpecClassify == InitClassify /\ [][NextClassify]_vars

\* ------------------------------------------------ operations of grouping
NNode == 3         \* number of records that occur in matches
MaxMatches == 3    \* length of a list of matches

Nodes == 1..NNode

\* lists of at most n pairs of nodes: chains, cycles, repeated pairs, pairs in
\* both directions and pairs of a record with itself
RECURSIVE ListsUpTo(_, _)
ListsUpTo(S, n) ==
  IF n = 0 THEN {<< >>}
  ELSE LET shorter == ListsUpTo(S, n - 1) IN
       shorter \cup {Append(l, x) : l \in {q \in shorter : Len(q) = n - 1}, x \in S}

MatchLists == ListsUpTo(Nodes \X Nodes, MaxMatches)

\* all the records: one record more than occurs in matches, in descending
\* order, and record 1 once more
AllNodes == [i \in 1..(NNode + 2) |-> IF i = NNode + 2 THEN 1 ELSE NNode + 2 - i]

\* the variables that the functions of the library leave alone
others == << indices, lists, calls, ninserts, comparisons >>

InitOthers ==
  /\ comparisons = EmptyDict
  /\ indices = [s \in Sides |-> << >>]
  /\ lists = [id \in ListIds |-> << >>]
  /\ ret = Ret("init", "-", "-", 0, "-", "ok", 0)
  /\ calls = EmptyDict
  /\ ninserts = 0

InitGroups ==
  /\ args \in [matches : MatchLists, allrecords : {AllNodes}]
  /\ InitOthers

\* components(adjacency_list(matches))
Components ==
  /\ ret' = Ret("components", "-", "-", 0, "-", "ok",
                [groups |-> components(adjacency_list(args.matches))])
  /\ UNCHANGED << args, others >>

\* singles_and_groups(matches, allrecords)
Grouping ==
  /\ LET r == singles_and_groups(args.matches, args.allrecords) IN
       ret' = Ret("singles_and_groups", "-", "-", 0, "-", "ok",
                  [matches |-> args.matches, allrecords |-> args.allrecords,
                   singles |-> r.singles, groups |-> r.groups])
  /\ UNCHANGED << args, others >>

NextGroups == Components \/ Grouping

SpecGroups == InitGroups /\ [][NextGroups]_vars

\* ============================================================ similarities
\* Field values: None, a string, or a number.
MaxNum == 4        \* greatest number held by a field

NoneV == << "None" >>
Str(s) == << "str", s >>
Num(n) == << "num", n >>
IsNum(v) == v[1] = "num"

Nums == {Num(n) : n \in 1..MaxNum}
FieldVals == {NoneV, Str("")} \cup Nums

\* rational numbers << n, d >> with d > 0: the similarities and their scaling
RSub(x, y) == << x[1] * y[2] - y[1] * x[2], x[2] * y[2] >>
RMul(x, y) == << x[1] * y[1], x[2] * y[2] >>
RDiv(x, y) == << x[1] * y[2], x[2] * y[1] >>      \* y > 0
REq(x, y) == x[1] * y[2] = y[1] * x[2]
RLeq(x, y) == x[1] * y[2] <= y[1] * x[2]
RMax(x, y) == IF RLess(x, y) THEN y ELSE x
Zero == << 0, 1 >>
One == << 1, 1 >>

\* The outcome of calling a function handed to the library: the value it
\* returns (NoneC for None) or the exception it raises.
Returned(v) == [status |-> "ok", val |-> v]
Raised(e) == [status |-> e, val |-> NoneC]

\* Similarity functions handed to the library:
\*   "pow2"     lambda x, y: 2**-abs(x-y), of the doctests (numbers only)
\*   "pow2none" the same, returning None when a value is None
\*   "exact"    lambda x, y: 1.0 if x == y else 0.0
similarity(name, x, y) ==
  CASE name = "exact" -> Returned(IF x = y THEN One ELSE Zero)
    [] name = "pow2none" /\ (x = NoneV \/ y = NoneV) -> Returned(NoneC)
    [] OTHER ->
         IF IsNum(x) /\ IsNum(y) THEN Returned(<< 1, 2 ^ Abs(x[2] - y[2]) >>)
                                 ELSE Raised("TypeError")

\* ------------------------------------------------------------------ Scale
\* Scale.__init__ raises unless 0.0 <= low < high
Scale_init_raises(low, high) == ~ (RLeq(Zero, low) /\ RLess(low, high))

\* Scale.scale(value)
Scale_scale(self, value) ==
  IF RLeq(value, self.low) THEN Zero
  ELSE IF RLeq(self.high, value) THEN One
  ELSE RDiv(RMul(self.rmax, RSub(value, self.low)), RSub(self.high, self.low))

\* the tests handed to Scale: none, or the doctest's isnum
test(name, v) == IF name = "isnum" THEN IsNum(v) ELSE TRUE

\* Scale.__call__(a, b); ncalls counts the calls of the inner similarity
Scale_call(self, a, b) ==
  IF self.test # "none" /\ ~ (test(self.test, a) /\ test(self.test, b))
    THEN [status |-> "ok", val |-> self.missing, ncalls |-> 0]
  ELSE LET v == similarity(self.similarity, a, b) IN
    IF v.status # "ok" THEN [status |-> v.status, val |-> NoneC, ncalls |-> 1]
    ELSE IF v.val = NoneC THEN [status |-> "ok", val |-> self.missing, ncalls |-> 1]
    ELSE [status |-> "ok", val |-> Scale_scale(self, v.val), ncalls |-> 1]

\* ------------------------------------------------- Field, Average, Maximum
\* Encoders handed to the library: the default lambda x: x, and
\* lambda x: x * 2 (which doubles a number and repeats a string).
encode(name, v) ==
  IF name = "double"
    THEN (IF IsNum(v) THEN Num(2 * v[2]) ELSE Str(v[2] \o v[2]))
    ELSE v

\* Field.__init__: field2 defaults to field1 and encode2 to encode1
\* (0 and "default" stand for an argument that was not given)
Field_init(compare, field1, encode1, field2, encode2) ==
  LET e1 == IF encode1 = "default" THEN "ident" ELSE encode1 IN
  [compare |-> compare, field1 |-> field1, encode1 |-> e1,
   field2 |-> IF field2 = 0 THEN field1 ELSE field2,
   encode2 |-> IF encode2 = "default" THEN e1 ELSE encode2]

\* Field.__call__(record1, record2); ncalls counts the calls of compare
Field_call_EmptyIsMissing(self, record1, record2) ==
  LET v1 == record1[self.field1]
      v2 == record2[self.field2] IN
  IF v1 \notin {NoneV, Str("")} /\ v2 \notin {NoneV, Str("")}
    THEN LET c == similarity(self.compare, encode(self.encode1, v1),
                             encode(self.encode2, v2)) IN
         [status |-> c.status, val |-> c.val, ncalls |-> 1]
    ELSE [status |-> "ok", val |-> NoneC, ncalls |-> 0]

Field_call(self, record1, record2) ==
  LET v1 == record1[self.field1]
      v2 == record2[self.field2] IN
  IF v1 # NoneV /\ v2 # NoneV
    THEN LET c == similarity(self.compare, encode(self.encode1, v1),
                             encode(self.encode2, v2)) IN
         [status |-> c.status, val |-> c.val, ncalls |-> 1]
    ELSE [status |-> "ok", val |-> NoneC, ncalls |-> 0]

\* max(best, comp) over the values of f2, starting from 0.0
RECURSIVE BestOver(_, _, _)
BestOver(compare, v1, f2) ==
  IF f2 = {} THEN Zero
  ELSE LET v2 == CHOOSE v \in f2 : TRUE IN
       RMax(BestOver(compare, v1, f2 \ {v2}), similarity(compare, v1, v2).val)

\* total += best, over the values of f1
RECURSIVE TotalOver(_, _, _)
TotalOver(compare, f1, f2) ==
  IF f1 = {} THEN Zero
  ELSE LET v1 == CHOOSE v \in f1 : TRUE IN
       RAdd(TotalOver(compare, f1 \ {v1}, f2), BestOver(compare, v1, f2))

\* does some compare(v1, v2) raise
SomeRaises(compare, f1, f2) ==
  \E v1 \in f1, v2 \in f2 : similarity(compare, v1, v2).status # "ok"

\* sorted([f1, f2], key=len): the sort is stable, so two sets of the same
\* size stay in the order of the arguments
ShortLong(f1, f2) ==
  IF Cardinality(f2) < Cardinality(f1) THEN << f2, f1 >> ELSE << f1, f2 >>

\* Average.__call__(record1, record2)
Average_call(self, record1, record2) ==
  LET g1 == {encode(self.encode1, v1) : v1 \in record1[self.field1]}
      g2 == {encode(self.encode2, v2) : v2 \in record2[self.field2]}
      f1 == ShortLong(g1, g2)[1]
      f2 == ShortLong(g1, g2)[2] IN
  IF f1 = {} \/ f2 = {} THEN similarity(self.compare, NoneV, NoneV)
  ELSE IF SomeRaises(self.compare, f1, f2) THEN Raised("TypeError")
  ELSE Returned(RDiv(TotalOver(self.compare, f1, f2), << Cardinality(f1), 1 >>))

\* the greatest compare(v1, v2) over f1 and f2, starting from 0.0
RECURSIVE BestOfAll(_, _, _)
BestOfAll(compare, f1, f2) ==
  IF f1 = {} THEN Zero
  ELSE LET v1 == CHOOSE v \in f1 : TRUE IN
       RMax(BestOfAll(compare, f1 \ {v1}, f2), BestOver(compare, v1, f2))

\* Maximum.__call__(record1, record2)
Maximum_call(self, record1, record2) ==
  LET f1 == {encode(self.encode1, v1) : v1 \in record1[self.field1]}
      f2 == {encode(self.encode2, v2) : v2 \in record2[self.field2]} IN
  IF f1 = {} \/ f2 = {} THEN similarity(self.compare, NoneV, NoneV)
  ELSE IF SomeRaises(self.compare, f1, f2) THEN Raised("TypeError")
  ELSE Returned(BestOfAll(self.compare, f1, f2))

\* ------------------------------------------- the similarities, applied
\* The arguments of one call, drawn at the start: a Scale and two values,
\* a Field and two records, or an Average or Maximum and two records with a
\* multi-valued field.
Lows == {<< -1, 5 >>, Zero, << 2, 5 >>, << 3, 5 >>}
Highs == {<< 2, 5 >>, << 3, 5 >>, One}
Rmaxs == {<< 1, 2 >>, One}
ScaleVals == {NoneV, Str("blah")} \cup Nums

ScaleArgs ==
  [fn : {"Scale"}, low : Lows, high : Highs, rmax : Rmaxs,
   test : {"none", "isnum"}, a : ScaleVals, b : ScaleVals]

FieldRecords == FieldVals \X FieldVals

FieldArgs ==
  [fn : {"Field"}, compare : {"exact", "pow2"}, field2 : {0, 2},
   encode2 : {"default", "double"},
   record1 : FieldRecords, record2 : FieldRecords]

MultiRecords == {<< f >> : f \in SUBSET Nums}

MultiArgs ==
  [fn : {"Average", "Maximum"}, compare : {"exact", "pow2"},
   record1 : MultiRecords, record2 : MultiRecords]

InitSim ==
  /\ args \in ScaleArgs \cup FieldArgs \cup MultiArgs
  /\ InitOthers

SimRet(r) == Ret(args.fn, "-", "-", 0, "-", r.status, r)

\* Scale(similarity, low, high, rmax, test=test)(a, b)
ScaleCall ==
  /\ args.fn = "Scale"
  /\ LET self == [similarity |-> "pow2none", low |-> args.low,
                  high |-> args.high, rmax |-> args.rmax,
                  missing |-> NoneC, test |-> args.test] IN
     ret' = IF Scale_init_raises(args.low, args.high)
              THEN SimRet([status |-> "ValueError", val |-> NoneC, ncalls |-> 0])
              ELSE SimRet(Scale_call(self, args.a, args.b))
  /\ UNCHANGED << args, others >>

\* Field(compare, 0, field2=field2, encode2=encode2)(record1, record2)
FieldCall ==
  /\ args.fn = "Field"
  /\ ret' = SimRet(Field_call(Field_init(args.compare, 1, "default",
                                         args.field2, args.encode2),
                              args.record1, args.record2))
  /\ UNCHANGED << args, others >>

\* Average(compare, 0)(record1, record2)
AverageCall ==
  /\ args.fn = "Average"
  /\ ret' = SimRet(Average_call(Field_init(args.compare, 1, "default", 0, "default"),
                                args.record1, args.record2))
  /\ UNCHANGED << args, others >>

\* Maximum(compare, 0)(record1, record2)
MaximumCall ==
  /\ args.fn = "Maximum"
  /\ ret' = SimRet(Maximum_call(Field_init(args.compare, 1, "default", 0, "default"),
                                args.record1, args.record2))
  /\ UNCHANGED << args, others >>

NextSim == ScaleCall \/ FieldCall \/ AverageCall \/ MaximumCall

SpecSim == InitSim /\ [][NextSim]_vars

\* ========================================================= getters and rows
\* bool(value), the default test of fallback
bool(v) == v # NoneV /\ v # Str("") /\ v # Num(0)

\* fallback(fields, test, default)(record), from the i-th field on.  The
\* first statement of the loop body, `val = getany(row, field)`, reads the
\* name `row`, which is bound neither in getfield nor in the module: it
\* raises NameError, which `except AttributeError` does not catch.
getfield_from(fields, default, record, i) ==
  IF i > Len(fields) THEN Returned(default)
  ELSE Raised("NameError")

getfield(fields, default, record) == getfield_from(fields, default, record, 1)

\* Projection.unionfields(fields1, fields2), from the i-th field of fields2
RECURSIVE unionfields_from(_, _, _)
unionfields_from_NoTest(outfields, fields2, i) ==
  IF i > Len(fields2) THEN outfields
  ELSE unionfields_from(Append(outfields, fields2[i]), fields2, i + 1)

unionfields_from(outfields, fields2, i) ==
  IF i > Len(fields2) THEN outfields
  ELSE IF \E j \in 1..Len(outfields) : outfields[j] = fields2[i]
    THEN unionfields_from(outfields, fields2, i + 1)
    ELSE unionfields_from(Append(outfields, fields2[i]), fields2, i + 1)

unionfields(fields1, fields2) == unionfields_from(fields1, fields2, 1)

\* a namedtuple row: its _fields and its values
Row(fields, values) == [fields |-> fields, values |-> values]

\* getattr(row, field)
getattr(row, field) ==
  row.values[CHOOSE j \in 1..Len(row.fields) : row.fields[j] = field]

\* Projection(fields)(row)
Projection_call(fields, row) ==
  Row(fields, [i \in 1..Len(fields) |->
                 IF \E j \in 1..Len(row.fields) : row.fields[j] = fields[i]
                   THEN getattr(row, fields[i]) ELSE ""])

\* ------------------------------------------------ getters and rows, applied
NField == 3        \* number of field names

FieldNames == {<< "a", "b", "c", "x", "y", "z" >>[i] : i \in 1..NField}

\* the lists of distinct field names of a namedtuple, the empty one included
Schemas ==
  {s \in ListsUpTo(FieldNames, NField) :
     \A i, j \in 1..Len(s) : s[i] = s[j] => i = j}

\* rows of a schema; a value is empty or names its field
Rows ==
  UNION {{Row(s, [i \in 1..Len(s) |-> IF i \in T THEN s[i] \o "1" ELSE ""]) :
            T \in SUBSET (1..Len(s))} : s \in Schemas}

FallbackArgs ==
  [fn : {"fallback"}, fields : ListsUpTo({1, 2}, 2),
   default : {NoneV, Str("-")}, record : FieldRecords]

UnionArgs == [fn : {"unionfields"}, fields1 : Schemas, fields2 : Schemas]

ProjectArgs == [fn : {"Projection"}, fields : Schemas, row : Rows]

InitRows ==
  /\ args \in FallbackArgs \cup UnionArgs \cup ProjectArgs
  /\ InitOthers

\* fallback(fields, bool, default)(record)
Fallback ==
  /\ args.fn = "fallback"
  /\ ret' = SimRet(getfield(args.fields, args.default, args.record))
  /\ UNCHANGED << args, others >>

\* Projection.unionfields(fields1, fields2).fields
UnionFields ==
  /\ args.fn = "unionfields"
  /\ ret' = SimRet(Returned(unionfields(args.fields1, args.fields2)))
  /\ UNCHANGED << args, others >>

\* Projection(fields)(row)
Project ==
  /\ args.fn = "Projection"
  /\ ret' = SimRet(Returned(Projection_call(args.fields, args.row)))
  /\ UNCHANGED << args, others >>

NextRows == Fallback \/ UnionFields \/ Project

SpecRows == InitRows /\ [][NextRows]_vars

\* ================================================================ properties
\* Helpers for stating the properties.

\* the number of calls of the similarity function on the objects (a, b)
Calls(a, b) == IF << a, b >> \in DOMAIN calls THEN calls[<< a, b >>] ELSE 0

\* the number of calls whose arguments have the values (x, y)
RECURSIVE SumCalls(_)
SumCalls(ps) ==
  IF ps = {} THEN 0
  ELSE LET p == CHOOSE q \in ps : TRUE IN Calls(p[1], p[2]) + SumCalls(ps \ {p})

CallsOnValues(x, y) ==
  SumCalls({p \in Objs \X Objs : val(p[1]) = x /\ val(p[2]) = y})

Elems(seq) == {seq[k] : k \in 1..Len(seq)}

\* The buckets of index i of Indices object s; the all-pairs index is seen as
\* one bucket under one key.
View(s, i) ==
  IF indices[s][i].type = "block" THEN indices[s][i].buckets
  ELSE ("*" :> lists[indices[s][i].records])

\* the record objects stored in an index
Stored(s, i) == UNION {Elems(View(s, i)[k]) : k \in DOMAIN View(s, i)}

\* two objects are stored under one key of index i of s
ShareKey(s, i, a, b) ==
  \E k \in DOMAIN View(s, i) : a \in Elems(View(s, i)[k]) /\ b \in Elems(View(s, i)[k])

\* a is stored in index i of s and b in index i of o under the same key
ShareKeyAcross(s, o, i, a, b) ==
  \E k \in DOMAIN View(s, i) \cap DOMAIN View(o, i) :
     a \in Elems(View(s, i)[k]) /\ b \in Elems(View(o, i)[k])

\* the number of keys of index i of s under which both objects are stored
SharedKeys(s, i, a, b) ==
  {k \in DOMAIN View(s, i) : a \in Elems(View(s, i)[k]) /\ b \in Elems(View(s, i)[k])}

\* every index of both Indices objects is a block index
AllBlock == \A s \in Sides : \A i \in 1..Len(indices[s]) : indices[s][i].type = "block"

AfterIndicesCompare(mode) ==
  ret.op = "compare" /\ ret.level = "Indices" /\ ret.mode = mode

AfterIndexOp(op, mode) ==
  ret.op = op /\ ret.level = "Index" /\ ret.mode = mode /\ ret.status = "ok"

\* ------------------------------------------------------------------- C1
\* C1 (as stated): after Indices.compare, in self-mode or in cross-mode, the
\* similarity function has been called at most once on each unordered pair of
\* records: the calls on (a, b) and on (b, a) together are at most one.
\* Stated for Indices objects made of block indexes.
C1_OncePerUnorderedPair ==
  ret.op = "compare" /\ ret.level = "Indices" /\ AllBlock =>
    \A a \in Objs, b \in Objs :
       IF a = b THEN Calls(a, a) <= 1 ELSE Calls(a, b) + Calls(b, a) <= 1

\* C1 (amended): Indices.compare calls the similarity function at most once
\* for each ordered pair of record values; in self-mode that is at most once
\* for each unordered pair of records.
C1_OncePerOrderedPair ==
  ret.op = "compare" /\ ret.level = "Indices" =>
    /\ \A x \in Vals, y \in Vals : CallsOnValues(x, y) <= 1
    /\ ret.mode = "self" =>
         \A a \in Objs, b \in Objs :
            IF a = b THEN Calls(a, a) <= 1 ELSE Calls(a, b) + Calls(b, a) <= 1

\* A self-mode Indices.compare has compared a pair of records that shares
\* two keys inside one index and is a candidate under two indexes.
C1_Witness ==
  /\ AfterIndicesCompare("self") /\ ret.status = "ok"
  /\ Len(indices["L"]) = 2
  /\ \E a \in Objs, b \in Objs :
       /\ a # b
       /\ Calls(a, b) = 1
       /\ ShareKey("L", 1, a, b)
       /\ Cardinality(SharedKeys("L", 2, a, b)) = 2

\* ------------------------------------------------------------------- C2
\* C2 (as stated): every key (a, b) of the PairMap returned by self-mode
\* compare on an index satisfies a < b.
C2_StrictlyOrdered ==
  AfterIndexOp("compare", "self") =>
    \A p \in DOMAIN ret.val : p[1] < p[2]

\* What the code keeps of C2: every key (a, b) of the PairMap returned by
\* self-mode compare on an index satisfies a <= b, with a = b for two records
\* of equal field values; on a block Index the key always comes from two
\* distinct record objects stored under one key.
C2_Ordered ==
  AfterIndexOp("compare", "self") =>
    \A p \in DOMAIN ret.val :
       /\ p[1] <= p[2]
       /\ indices[ret.side][ret.idx].type = "block" =>
            \E a \in Objs, b \in Objs :
               /\ a # b /\ val(a) = p[1] /\ val(b) = p[2]
               /\ ShareKey(ret.side, ret.idx, a, b)

\* Self-mode compare on a block index returned the pair of two record objects
\* with equal field values.
C2_Witness ==
  /\ AfterIndexOp("compare", "self")
  /\ indices[ret.side][ret.idx].type = "block"
  /\ \E p \in DOMAIN ret.val : p[1] = p[2]
  /\ \E a \in Objs, b \in Objs :
       a # b /\ val(a) = val(b) /\ ShareKey(ret.side, ret.idx, a, b)

\* ------------------------------------------------------------------- C3
\* C3: every key (left, right) of the PairMap returned by cross-mode compare
\* of an index against another index is a record stored in the left index and
\* a record stored in the right index that share an index key.
C3_LeftRight ==
  AfterIndexOp("compare", "cross") =>
    \A p \in DOMAIN ret.val :
       \E a \in Stored("L", ret.idx), b \in Stored("R", ret.idx) :
          /\ val(a) = p[1] /\ val(b) = p[2]
          /\ ShareKeyAcross("L", "R", ret.idx, a, b)

\* Cross-mode compare on a block index returned a pair while some left record
\* and some right record share no key.
C3_Witness ==
  /\ AfterIndexOp("compare", "cross")
  /\ indices["L"][ret.idx].type = "block"
  /\ DOMAIN ret.val # {}
  /\ \E a \in Stored("L", ret.idx), b \in Stored("R", ret.idx) :
       /\ ~ ShareKeyAcross("L", "R", ret.idx, a, b)
       /\ << val(a), val(b) >> \notin DOMAIN ret.val

\* ------------------------------------------------------------------- C4
MinV(x, y) == IF x <= y THEN x ELSE y
MaxV(x, y) == IF x <= y THEN y ELSE x

\* the pairs of distinct record objects stored under one key of some index of s
CandidatesSelf(s) ==
  {p \in Objs \X Objs :
     p[1] # p[2] /\ \E i \in 1..Len(indices[s]) : ShareKey(s, i, p[1], p[2])}

\* the pairs (left, right) stored under one key of some index of s and of the
\* index at the same position of o
CandidatesCross(s, o) ==
  {p \in Objs \X Objs :
     \E i \in 1..Min(Len(indices[s]), Len(indices[o])) : ShareKeyAcross(s, o, i, p[1], p[2])}

\* C4: on Indices objects made of block indexes, the key set of the PairMap
\* returned by Indices.compare is, in self-mode, exactly the pairs (smaller
\* first) of non-identical records that share a key in some index, and in
\* cross-mode exactly the (left, right) pairs that share a key in some couple
\* of indexes at the same position.
C4_ExactCandidates ==
  ret.op = "compare" /\ ret.level = "Indices" /\ ret.status = "ok" /\ AllBlock =>
    IF ret.mode = "self"
      THEN DOMAIN ret.val =
             {<< MinV(val(p[1]), val(p[2])), MaxV(val(p[1]), val(p[2])) >> :
                p \in CandidatesSelf("L")}
      ELSE DOMAIN ret.val = {<< val(p[1]), val(p[2]) >> : p \in CandidatesCross("L", "R")}

\* A self-mode Indices.compare over block indexes returned a pair although a
\* record object is stored twice under one key, and left another pair out
\* because its records share no key.
C4_Witness ==
  /\ AfterIndicesCompare("self") /\ ret.status = "ok" /\ AllBlock
  /\ DOMAIN ret.val # {}
  /\ \E a \in Objs, i \in 1..Len(indices["L"]) : \E k \in DOMAIN View("L", i) :
       Cardinality({n \in 1..Len(View("L", i)[k]) : View("L", i)[k][n] = a}) = 2

\* ------------------------------------------------------------------- C5
\* the value of count(other) for the index and the mode of the last operation
CountNow ==
  LET self == indices[ret.side][ret.idx]
      oth == IF ret.mode = "self" THEN NoIndex ELSE indices[Peer(ret.side)][ret.idx] IN
  IF self.type = "block" THEN BlockCount(self, oth, FALSE)
                         ELSE AllPairsCount(self, oth, FALSE)

\* C5: count() is at least the number of distinct pairs returned by self-mode
\* compare, and count(other) at least the number returned by compare against
\* other, on a block Index and on an AllPairs index.
C5_CountIsUpperBound ==
  (AfterIndexOp("compare", "self") \/ AfterIndexOp("compare", "cross")) =>
    /\ CountNow.status = "ok"
    /\ Cardinality(DOMAIN ret.val) <= CountNow.val

\* compare returned at least one pair and count is exactly that number
C5_Witness ==
  /\ AfterIndexOp("compare", "self")
  /\ indices[ret.side][ret.idx].type = "block"
  /\ Cardinality(DOMAIN ret.val) >= 1
  /\ CountNow.val = Cardinality(DOMAIN ret.val)

\* ------------------------------------------------------------------- C6
RECURSIVE SumOver(_, _)
SumOver(f, S) ==
  IF S = {} THEN 0
  ELSE LET k == CHOOSE x \in S : TRUE IN f[k] + SumOver(f, S \ {k})

\* sum of n(n-1)/2 over the buckets with n >= 2 records
PairsWithin(b) ==
  SumOver([k \in DOMAIN b |-> (Len(b[k]) * (Len(b[k]) - 1)) \div 2],
          {k \in DOMAIN b : Len(b[k]) >= 2})

\* sum of n_a * n_b over the keys present in both indexes
PairsBetween(b1, b2) ==
  SumOver([k \in DOMAIN b1 \cap DOMAIN b2 |-> Len(b1[k]) * Len(b2[k])],
          DOMAIN b1 \cap DOMAIN b2)

Occurrences(keys, k) == Cardinality({n \in 1..Len(keys) : keys[n] = k})

\* seq followed by n copies of o
RECURSIVE Repeat(_, _, _)
Repeat(seq, o, n) == IF n = 0 THEN seq ELSE Repeat(Append(seq, o), o, n - 1)

BadKey(k) == k = None \/ k = ""

\* C7: Indices.insert raises when a key function emits a None or empty key,
\* and then leaves every index as it was; when it succeeds, the record is
\* appended to the bucket of each emitted key in every block index and no
\* other bucket changes.
C7_AtomicInsert ==
  [][ret'.op = "insert" /\ ninserts' # ninserts =>
       LET s == ret'.side
           o == ret'.val IN
       /\ ret'.status = "ValueError" <=>
            \E i \in 1..Len(indices[s]) :
               /\ indices[s][i].type = "block"
               /\ \E n \in DOMAIN makekey(indices[s][i].makekey, o) :
                    BadKey(makekey(indices[s][i].makekey, o)[n])
       /\ ret'.status = "ValueError" => indices' = indices /\ lists' = lists
       /\ ret'.status = "ok" =>
            \A i \in 1..Len(indices[s]) :
               indices[s][i].type = "block" =>
                 LET keys == makekey(indices[s][i].makekey, o)
                     old == indices[s][i].buckets
                     new == indices'[s][i].buckets IN
                 /\ DOMAIN new = DOMAIN old \cup Elems(keys)
                 /\ \A k \in DOMAIN new :
                      new[k] = Repeat(IF k \in DOMAIN old THEN old[k] ELSE << >>,
                                      o, Occurrences(keys, k))
  ]_vars

\* ------------------------------------------------------------------- C8
\* The input and master Indices each hold an all-pairs index on its own list
\* and, fed the same inserts, a block index whose key function is constant.
Twins ==
  /\ \A s \in Sides :
       /\ Len(indices[s]) = 2
       /\ indices[s][1].type = "allpairs" /\ indices[s][1].records = s
       /\ indices[s][2].type = "block" /\ indices[s][2].makekey = "const"

\* C8: on an all-pairs index, self-mode compare, cross-mode compare and count
\* return what they return on a block index with a constant key function that
\* was given the same inserts.
C8_AllPairsIsOneBucket ==
  Twins /\ ret.level = "Index" /\ ret.idx = 1 /\ ret.status = "ok" =>
    LET twin == indices["L"][2]
        other == indices["R"][2] IN
    /\ ret.op = "count" /\ ret.mode = "self" =>
         ret.val = BlockCount(twin, NoIndex, FALSE).val
    /\ ret.op = "count" /\ ret.mode = "cross" =>
         ret.val = BlockCount(twin, other, FALSE).val
    /\ ret.op = "compare" /\ ret.mode = "self" =>
         ret.val = compare_self(twin.buckets, NewAcc).acc.cmp
    /\ ret.op = "compare" /\ ret.mode = "cross" =>
         ret.val = compare_other(twin.buckets, other.buckets, NewAcc).cmp

\* ------------------------------------------------------------------- C9
\* some couple of indexes at the same position has two different types
TypeMismatch(s, o) ==
  \E i \in 1..Min(Len(indices[s]), Len(indices[o])) :
     indices[s][i].type # indices[o][i].type

\* C9: cross-mode Indices.compare pairs the indexes by position; it raises
\* TypeError and returns no PairMap when the two indexes at some position
\* have different types, and returns a PairMap otherwise.
C9_TypeMismatchRaises ==
  AfterIndicesCompare("cross") =>
    /\ TypeMismatch("L", "R") => ret.status = "TypeError" /\ DOMAIN ret.val = {}
    /\ ~ TypeMismatch("L", "R") => ret.status = "ok"

\* The type check failed at the second position, after the indexes at the
\* first position had been compared.
C9_Witness ==
  /\ AfterIndicesCompare("cross")
  /\ ret.status = "TypeError"
  /\ indices["L"][1].type = indices["R"][1].type
  /\ DOMAIN calls # {}

\* ------------------------------------------------------------------ C10
\* the classifiers were handed an empty PairMap
AfterClassifyEmpty ==
  ret.op \in {"kmeans", "nearest", "rulebased"} /\ comparisons = EmptyDict

\* C10 (as stated): on an empty PairMap kmeans.classify, nearest.classify and
\* rulebased.classify raise nothing and return two empty maps, and on an empty
\* match list singles_and_groups raises nothing and returns no group.
C10_EmptyInEmptyOut ==
  /\ AfterClassifyEmpty =>
       /\ ret.status = "ok"
       /\ ret.val.type = "dict"
       /\ ret.val.matches = EmptyDict /\ ret.val.nonmatches = EmptyDict
  /\ ret.op = "singles_and_groups" /\ ret.val.matches = << >> =>
       ret.status = "ok" /\ ret.val.groups = << >>

\* The part of C10 about one block index: compare and count on an empty index,
\* and compare of an empty index against a non-empty one and of a non-empty
\* one against an empty one, raise nothing and return an empty PairMap or 0.
C10_EmptyIndex ==
  ret.level = "Index" /\ indices[ret.side][ret.idx].type = "block" =>
    /\ ret.mode = "self" /\ Stored(ret.side, ret.idx) = {} =>
         ret.status = "ok" /\ ret.val = (IF ret.op = "count" THEN 0 ELSE EmptyDict)
    /\ (/\ ret.mode = "cross" /\ ret.op = "compare"
        /\ indices[Peer(ret.side)][ret.idx].type = "block"
        /\ (Stored(ret.side, ret.idx) = {} \/ Stored(Peer(ret.side), ret.idx) = {})) =>
         ret.status = "ok" /\ ret.val = EmptyDict

\* A non-empty block index was compared against an empty one.
C10_EmptyIndexWitness ==
  /\ ret.level = "Index" /\ indices[ret.side][ret.idx].type = "block"
  /\ ret.mode = "cross" /\ ret.op = "compare"
  /\ indices[Peer(ret.side)][ret.idx].type = "block"
  /\ Stored(ret.side, ret.idx) # {} /\ Stored(Peer(ret.side), ret.idx) = {}

\* ------------------------------------------------------------ C11, C12
\* the items of a list
Items(seq) == {seq[n] : n \in 1..Len(seq)}

\* the records joined to record x by one edge of M, in either direction
Adjacent(M, x) ==
  {M[n][2] : n \in {m \in 1..Len(M) : M[m][1] = x}}
    \cup {M[n][1] : n \in {m \in 1..Len(M) : M[m][2] = x}}

\* the records reachable from the records of S by a path of edges of M
RECURSIVE ReachableFrom(_, _)
ReachableFrom(M, S) ==
  LET more == S \cup UNION {Adjacent(M, x) : x \in S} IN
  IF more = S THEN S ELSE ReachableFrom(M, more)

\* the number of ends of edges of M at record x
Degree(M, x) ==
  Cardinality({n \in 1..Len(M) : M[n][1] = x})
    + Cardinality({n \in 1..Len(M) : M[n][2] = x})

\* C11: singles_and_groups(M, allrecords) returns groups in which every record
\* is reachable from every other record of the group by a path of edges of M,
\* and singles that are exactly the records of allrecords of degree 0 in M, in
\* the order of allrecords.
C11_GroupsConnectedSinglesDegree0 ==
  ret.op = "singles_and_groups" =>
    /\ \A g \in 1..Len(ret.val.groups) :
         \A x \in Items(ret.val.groups[g]), y \in Items(ret.val.groups[g]) :
            y \in ReachableFrom(args.matches, {x})
    /\ ret.val.singles =
         SelectSeq(args.allrecords, LAMBDA rec : Degree(args.matches, rec) = 0)

\* singles_and_groups returned a group of three records held together by a
\* chain of two matches, and a single record.
C11_Witness ==
  /\ ret.op = "singles_and_groups"
  /\ Len(args.matches) = 2
  /\ Len(ret.val.groups) = 1 /\ Len(ret.val.groups[1]) = 3
  /\ Len(ret.val.singles) > 0

\* C12: components returns the connected components of the match graph: every
\* record that occurs in a match is in exactly one group and once in it, no
\* group is empty, every record of a group occurs in a match, and the two
\* records of every match are in the same group.
C12_ComponentsPartition ==
  ret.op = "components" =>
    LET groups == ret.val.groups
        M == args.matches
        matched == UNION {{M[n][1], M[n][2]} : n \in 1..Len(M)} IN
    /\ \A x \in matched :
         /\ Cardinality({g \in 1..Len(groups) : x \in Items(groups[g])}) = 1
         /\ \A g \in 1..Len(groups) :
              Cardinality({n \in 1..Len(groups[g]) : groups[g][n] = x}) <= 1
    /\ \A g \in 1..Len(groups) : Len(groups[g]) > 0 /\ Items(groups[g]) \subseteq matched
    /\ \A n \in 1..Len(M) :
         \E g \in 1..Len(groups) : {M[n][1], M[n][2]} \subseteq Items(groups[g])

\* components was given a cycle of three records, entered by three matches.
C12_WitnessCycle ==
  /\ ret.op = "components"
  /\ Len(args.matches) = 3
  /\ \A x \in Nodes : Degree(args.matches, x) = 2 /\ Cardinality(Adjacent(args.matches, x)) = 2
  /\ Len(ret.val.groups) = 1

\* ------------------------------------------------------------------ C13
\* the similarities of a PairMap of one-dimensional vectors without None
Sims1 == {comparisons[k][1][1] : k \in DOMAIN comparisons}

\* kmeans.classify returned for one-dimensional vectors without missing
\* values that hold at least two distinct values
AfterKmeans1D ==
  /\ ret.op = "kmeans"
  /\ \A k \in DOMAIN comparisons : Len(comparisons[k]) = 1 /\ comparisons[k][1] # NoneC
  /\ Cardinality(Sims1) >= 2

\* C13: kmeans.classify on one-dimensional vectors without missing values and
\* with at least two distinct values returns the pairs of greatest similarity
\* as matches, the pairs of least similarity as non-matches, and no match of
\* a similarity below that of a non-match; each pair is in one of the two.
C13_KmeansThreshold ==
  AfterKmeans1D =>
    /\ ret.status = "ok" /\ ret.val.type = "dict"
    /\ DOMAIN ret.val.matches \cup DOMAIN ret.val.nonmatches = DOMAIN comparisons
    /\ DOMAIN ret.val.matches \cap DOMAIN ret.val.nonmatches = {}
    /\ \A k \in DOMAIN comparisons :
         /\ comparisons[k][1][1] = MaxOf(Sims1) => k \in DOMAIN ret.val.matches
         /\ comparisons[k][1][1] = MinOf(Sims1) => k \in DOMAIN ret.val.nonmatches
    /\ \A m \in DOMAIN ret.val.matches, n \in DOMAIN ret.val.nonmatches :
         comparisons[m][1][1] >= comparisons[n][1][1]

\* kmeans.classify separated three pairs of three distinct similarities into
\* two matches and one non-match.
C13_Witness ==
  /\ AfterKmeans1D
  /\ Cardinality(Sims1) = 3
  /\ Cardinality(DOMAIN ret.val.matches) = 2
  /\ Cardinality(DOMAIN ret.val.nonmatches) = 1

\* ------------------------------------------------------------ C14, C15
\* what the rule of the last classification says of pair k
Judge(k) == rule(ret.val.rule, k, comparisons[k])

Judged(j) == {k \in DOMAIN comparisons : Judge(k) = j}

\* C14: in nearest.classify with a rule, a pair judged true is a match of score
\* 1.0 and a pair judged false a non-match of score 0.0, whatever the examples;
\* a pair judged none is placed and scored as nearest.classify without a rule
\* places and scores it; a judgement that is not true, false or none makes the
\* call raise, and a call whose judgements are all true or false returns.
C14_RuleOverride ==
  ret.op = "nearest" /\ ret.val.rule # "NoRule" =>
    /\ Judged("Other") # {} => ret.status \in Errors
    /\ Judged("Other") = {} /\ Judged("None") = {} => ret.status = "ok"
    /\ ret.status = "ok" =>
         LET norule == nearest_classify(comparisons, ret.val.ex, "NoRule") IN
         /\ \A k \in Judged("True") :
              /\ k \in DOMAIN ret.val.matches /\ ret.val.matches[k] = RuleMatch
              /\ k \notin DOMAIN ret.val.nonmatches
         /\ \A k \in Judged("False") :
              /\ k \in DOMAIN ret.val.nonmatches /\ ret.val.nonmatches[k] = RuleNonMatch
              /\ k \notin DOMAIN ret.val.matches
         /\ \A k \in Judged("None") :
              /\ norule.status = "ok"
              /\ k \in DOMAIN ret.val.matches <=> k \in DOMAIN norule.matches
              /\ k \in DOMAIN ret.val.nonmatches <=> k \in DOMAIN norule.nonmatches
              /\ k \in DOMAIN norule.matches => ret.val.matches[k] = norule.matches[k]
              /\ k \in DOMAIN norule.nonmatches => ret.val.nonmatches[k] = norule.nonmatches[k]

\* nearest.classify returned for a pair judged true that is nearer to the
\* non-match example, a pair judged false that is nearer to the match example,
\* and a pair judged none.
C14_Witness ==
  /\ ret.op = "nearest" /\ ret.status = "ok" /\ ret.val.rule = "ByFirst"
  /\ Judged("None") # {}
  /\ LET norule == nearest_classify(comparisons, ret.val.ex, "NoRule") IN
       /\ norule.status = "ok"
       /\ \E k \in Judged("True") : k \in DOMAIN norule.nonmatches
       /\ \E k \in Judged("False") : k \in DOMAIN norule.matches

\* C15: rulebased.classify returns as matches exactly the pairs judged true,
\* each with score 1.0, and as non-matches exactly the pairs judged false, each
\* with score 0.0, the pairs judged none being in neither; it raises when some
\* judgement is not true, false or none.
C15_RuleBased ==
  ret.op = "rulebased" =>
    IF Judged("Other") # {} THEN ret.status = "ValueError"
    ELSE /\ ret.status = "ok" /\ ret.val.type = "dict"
         /\ DOMAIN ret.val.matches = Judged("True")
         /\ DOMAIN ret.val.nonmatches = Judged("False")
         /\ \A k \in Judged("True") : ret.val.matches[k] = RuleMatch
         /\ \A k \in Judged("False") : ret.val.nonmatches[k] = RuleNonMatch

\* rulebased.classify returned for a PairMap with a pair judged true, one
\* judged false and one judged none.
C15_Witness ==
  /\ ret.op = "rulebased" /\ ret.status = "ok"
  /\ Judged("True") # {} /\ Judged("False") # {} /\ Judged("None") # {}


\* ---- C16 -----------------------------------------------------------------
\* the raw similarity of the two values of a Scale call
Raw == similarity("pow2none", args.a, args.b)
TestFails == args.test # "none" /\ ~ (test(args.test, args.a) /\ test(args.test, args.b))
AfterScale == ret.op = "Scale" /\ ret.status = "ok" /\ ~ TestFails
                /\ Raw.status = "ok" /\ Raw.val # NoneC

\* C16: Scale maps a raw similarity v to 0 when v <= low, to rmax when
\* v >= high and to rmax*(v-low)/(high-low) in between, so that the result
\* lies in [0, rmax] for every rmax; construction fails unless
\* 0 <= low < high; when an argument fails the test, missing is returned and
\* the inner similarity is not called.  The code returns 1.0, not rmax, for
\* v >= high.
C16_ScaleClipsToRmax ==
  ret.op = "Scale" =>
    /\ (ret.status = "ValueError") <=>
         ~ (RLeq(Zero, args.low) /\ RLess(args.low, args.high))
    /\ (ret.status = "ok" /\ TestFails) =>
         (ret.val.val = NoneC /\ ret.val.ncalls = 0)
    /\ AfterScale =>
         /\ RLeq(Raw.val, args.low) => REq(ret.val.val, Zero)
         /\ RLeq(args.high, Raw.val) => REq(ret.val.val, args.rmax)
         /\ (RLess(args.low, Raw.val) /\ RLess(Raw.val, args.high)) =>
              REq(ret.val.val,
                  RDiv(RMul(args.rmax, RSub(Raw.val, args.low)),
                       RSub(args.high, args.low)))
         /\ RLeq(Zero, ret.val.val) /\ RLeq(ret.val.val, args.rmax)


\* ---- C17 -----------------------------------------------------------------
\* the values the two getters of a Field call yield, and the second encoder
Got1 == args.record1[1]
Got2 == args.record2[IF args.field2 = 0 THEN 1 ELSE args.field2]
Enc2 == IF args.encode2 = "default" THEN "ident" ELSE args.encode2
Compared == similarity(args.compare, Got1, encode(Enc2, Got2))
Empty(v) == v = NoneV \/ v = Str("")

\* C17 as stated: Field returns compare(encode1(get1(r1)), encode2(get2(r2)))
\* when both getters yield a present value, and the missing sentinel, without
\* calling compare, when either getter yields None or an empty value.
C17_EmptyIsMissing ==
  ret.op = "Field" =>
    IF Empty(Got1) \/ Empty(Got2)
      THEN ret.status = "ok" /\ ret.val.val = NoneC /\ ret.val.ncalls = 0
      ELSE ret.status = Compared.status /\ ret.val.val = Compared.val
             /\ ret.val.ncalls = 1

\* C17 amended: Field returns compare(encode1(get1(r1)), encode2(get2(r2)))
\* (or raises what compare raises) when neither getter yields None, an empty
\* value included, and returns None without calling compare when either
\* getter yields None.
C17_NoneIsMissing ==
  ret.op = "Field" =>
    IF Got1 = NoneV \/ Got2 = NoneV
      THEN ret.status = "ok" /\ ret.val.val = NoneC /\ ret.val.ncalls = 0
      ELSE ret.status = Compared.status /\ ret.val.val = Compared.val
             /\ ret.val.ncalls = 1

\* a Field with its own second getter and encoder compared an empty value
C17_Witness ==
  /\ ret.op = "Field" /\ ret.status = "ok"
  /\ args.field2 = 2 /\ args.encode2 = "double" /\ args.compare = "exact"
  /\ Got1 = Str("") /\ Got2 = Str("")
  /\ args.record2[1] = Num(1)
  /\ ret.val.ncalls = 1 /\ ret.val.val = One


\* ---- C18 -----------------------------------------------------------------
\* the same similarity applied to the two records in the other order
DefaultField == Field_init(args.compare, 1, "default", 0, "default")
Swapped ==
  CASE args.fn = "Field" -> Field_call(DefaultField, args.record2, args.record1)
    [] args.fn = "Average" -> Average_call(DefaultField, args.record2, args.record1)
    [] args.fn = "Maximum" -> Maximum_call(DefaultField, args.record2, args.record1)
SameGetters == args.fn = "Field" => (args.field2 = 0 /\ args.encode2 = "default")

\* C18: a Field, Average or Maximum built from a symmetric compare with the
\* same getter and encoder on both sides gives V(a, b) = V(b, a) for every
\* pair of records, records whose multi-valued fields hold the same number
\* of values included.  Average breaks it on fields of equal size.
C18_Symmetric ==
  (ret.op \in {"Field", "Average", "Maximum"} /\ SameGetters) =>
    /\ ret.status = Swapped.status
    /\ ret.val.val = NoneC <=> Swapped.val = NoneC
    /\ ret.val.val # NoneC => REq(ret.val.val, Swapped.val)


\* ---- C19 -----------------------------------------------------------------
\* the values of the fields of a fallback call that pass the test, in order
Passing == SelectSeq([i \in 1..Len(args.fields) |-> args.record[args.fields[i]]],
                     bool)

\* C19: the getter built by fallback(fields, test, default) returns the value
\* of the first field, in the order of fields, whose value passes the test,
\* and default when none does; a field whose value fails the test does not
\* stop the later fields from being tried.  The code raises NameError as
\* soon as there is a field to try.
C19_FirstPassing ==
  ret.op = "fallback" =>
    /\ ret.status = "ok"
    /\ ret.val.val = IF Passing = << >> THEN args.default ELSE Passing[1]


\* ---- C20 -----------------------------------------------------------------
Has(fields, f) == \E j \in 1..Len(fields) : fields[j] = f
ValueOf(row, f) == row.values[CHOOSE j \in 1..Len(row.fields) : row.fields[j] = f]

\* C20: unionfields(A, B) yields the fields of A in their order followed by
\* the fields of B that are not in A, in B's order; unionfields of the
\* result and B, or of the result and A, yields the same list; projecting a
\* row keeps the value of each output field the row has, drops the fields
\* that are not output fields and fills the output fields the row lacks
\* with the empty string.
C20_UnionAndProjection ==
  /\ ret.op = "unionfields" =>
       LET NotInA(f) == ~ Has(args.fields1, f) IN
       /\ ret.val.val = args.fields1 \o SelectSeq(args.fields2, NotInA)
       /\ unionfields(ret.val.val, args.fields2) = ret.val.val
       /\ unionfields(ret.val.val, args.fields1) = ret.val.val
  /\ ret.op = "Projection" =>
       /\ ret.val.val.fields = args.fields
       /\ Len(ret.val.val.values) = Len(args.fields)
       /\ \A i \in 1..Len(args.fields) :
            ret.val.val.values[i] =
              IF Has(args.row.fields, args.fields[i])
                THEN ValueOf(args.row, args.fields[i]) ELSE ""

\* a union of two schemas that share a field and each have one of their own
C20_Witness ==
  /\ ret.op = "unionfields"
  /\ args.fields1 = << "b", "a" >> /\ args.fields2 = << "c", "b" >>
  /\ ret.val.val = << "b", "a", "c" >>


\* ---- C21 -----------------------------------------------------------------
\* every vector of the PairMap has None in component i
MissingEverywhere(i) == \A k \in DOMAIN comparisons : comparisons[k][i] = NoneC

\* C21: a missing component is never an error for the k-means classifier:
\* kmeans.classify returns a classification for every non-empty PairMap of
\* vectors of one length, also when a component is missing in every vector,
\* when a vector has every component missing and when a cluster receives no
\* vector.  The code raises ValueError when a component is missing in every
\* vector.
C21_MissingIsNoError ==
  (ret.op = "kmeans" /\ DOMAIN comparisons # {}) =>
    /\ ret.status = "ok"
    /\ ret.val.type = "dict"
    /\ DOMAIN ret.val.matches \cup DOMAIN ret.val.nonmatches = DOMAIN comparisons


\* ---- C22 -----------------------------------------------------------------
\* all the indexes of each Indices object hold the same records
SameRecords ==
  \A s \in Sides : \A i, j \in 1..Len(indices[s]) : Stored(s, i) = Stored(s, j)

\* C22: after any sequence of Indices.insert calls that all succeed, all the
\* indexes of an Indices object hold the same collection of records, for
\* every key function returning zero or more keys: an insert that succeeds
\* keeps the collections the same.  A record without a key is stored in no
\* bucket of a block index, and an all-pairs index on the shared default
\* list receives the records of another Indices object.
C22_SameCollection ==
  [][(ret'.op = "insert" /\ ret'.status = "ok" /\ SameRecords) => SameRecords']_vars


\* ---- C23 -----------------------------------------------------------------
\* the number of times record o is in the bucket of key k of a block index
InBucket(idx, k, o) ==
  IF k \in DOMAIN idx.buckets THEN Occurrences(idx.buckets[k], o) ELSE 0

\* C23 as stated: in every reachable state of a block Index each record is
\* at most once in the bucket of each key, also when the key function emits
\* a key twice for a record or a record is inserted twice.
C23_AtMostOncePerKey ==
  \A s \in Sides : \A i \in 1..Len(indices[s]) :
     indices[s][i].type = "block" =>
       \A k \in GoodKeys, o \in Objs : InBucket(indices[s][i], k, o) <= 1

\* C23 amended: an insert that succeeds appends the record to the bucket of a
\* key once for every time the key function emits the key, whether or not
\* the bucket holds the record already, and changes nothing else; the
\* self-mode compare of a block Index never calls the similarity function on
\* a record and itself.
C23_DuplicatesKept ==
  /\ [](AfterIndexOp("compare", "self") /\ indices[ret.side][ret.idx].type = "block" =>
          \A a \in Objs : Calls(a, a) = 0)
  /\ [][(ret'.op = "insert" /\ ninserts' # ninserts /\ ret'.status = "ok") =>
          \A i \in 1..Len(indices[ret'.side]) :
             indices[ret'.side][i].type = "block" =>
               \A k \in GoodKeys, o \in Objs :
                  InBucket(indices'[ret'.side][i], k, o) =
                    InBucket(indices[ret'.side][i], k, o)
                      + (IF o = ret'.val
                           THEN Occurrences(makekey(indices[ret'.side][i].makekey, o), k)
                           ELSE 0)]_vars

\* a self-mode compare on a block index whose bucket holds a record twice
\* and another record
C23_Witness ==
  /\ AfterIndexOp("compare", "self") /\ indices[ret.side][ret.idx].type = "block"
  /\ \E k \in GoodKeys, a \in Objs, b \in Objs :
       /\ a # b
       /\ InBucket(indices[ret.side][ret.idx], k, a) >= 2
       /\ InBucket(indices[ret.side][ret.idx], k, b) >= 1
       /\ Calls(a, a) = 0


\* ---- C24 -----------------------------------------------------------------
AfterKmeans == ret.op = "kmeans" /\ ret.status = "ok" /\ DOMAIN comparisons # {}

\* the state of the loop after n passes made whether or not the assignments
\* still change
RECURSIVE PassesFrom(_, _, _)
PassesFrom(cmp, st, n) ==
  IF n = 0 THEN st
  ELSE LET vlen == Len(st.high)
           p == KPass(cmp, st.assign, st.high, st.low, vlen) IN
       PassesFrom(cmp, [assign |-> p.assign, n_changed |-> p.n_changed, high |-> p.high,
                        low |-> p.low, iters |-> st.iters + 1], n - 1)

FirstCentroids(cmp) ==
  LET vlen == Len(cmp[CHOOSE k \in DOMAIN cmp : TRUE]) IN
  [assign |-> [k \in DOMAIN cmp |-> FALSE], n_changed |-> 1,
   high |-> [i \in 1..vlen |-> << MaxOf(Present(cmp, i)), 1 >>],
   low |-> [i \in 1..vlen |-> << MinOf(Present(cmp, i)), 1 >>],
   iters |-> 0]

AfterPasses(n) == PassesFrom(comparisons, FirstCentroids(comparisons), n)

\* C24: kmeans.classify makes at least one and at most maxiter assignment
\* passes; the pass it stops after is the first that changed no assignment,
\* or pass number maxiter when every earlier pass changed one; when it stops
\* on an unchanged pass after two or more passes, every vector is assigned to
\* the centroid, of the final two, that it is nearer to (the non-match
\* centroid in a tie).
C24_KmeansTerminates ==
  AfterKmeans =>
    LET km == ret.val.km IN
    /\ km.iters <= ret.val.maxiter
    /\ km.iters >= 1
    /\ km.iters < ret.val.maxiter => km.n_changed = 0
    /\ km.n_changed > 0 => km.iters = ret.val.maxiter
    /\ \A j \in 1..(km.iters - 1) : AfterPasses(j).n_changed > 0
    /\ km.assign = AfterPasses(km.iters).assign
    /\ (km.n_changed = 0 /\ km.iters >= 2) =>
         \A k \in DOMAIN comparisons :
            km.assign[k] <=> RLess(L2sq(RatVec(comparisons[k]), km.high),
                                   L2sq(RatVec(comparisons[k]), km.low))

\* k-means under the default cap stopped on an unchanged third or later pass
\* with both clusters in use
C24_Witness ==
  /\ AfterKmeans
  /\ ret.val.maxiter = DefaultMaxIter
  /\ ret.val.km.iters >= 3 /\ ret.val.km.iters < DefaultMaxIter
  /\ ret.val.km.n_changed = 0
  /\ DOMAIN ret.val.matches # {} /\ DOMAIN ret.val.nonmatches # {}


\* ---- C25 -----------------------------------------------------------------
\* a classification by distances has returned: kmeans.classify, or
\* nearest.classify without a rule
AfterDistances ==
  /\ ret.op \in {"kmeans", "nearest"}
  /\ ret.status = "ok"
  /\ ret.val.type = "dict"
  /\ ret.op = "nearest" => ret.val.rule = "NoRule"

\* the sign of log10((d_low + 0.1) / (d_high + 0.1))
Positive(score) == RLess(score.high2, score.low2)
Negative(score) == RLess(score.low2, score.high2)

\* C25: the score log10((d_low+0.1)/(d_high+0.1)) that kmeans.classify and
\* nearest.classify without a rule return is positive for every match and
\* negative for every non-match.
C25_ScoreSign ==
  AfterDistances =>
    /\ \A k \in DOMAIN ret.val.matches : Positive(ret.val.matches[k])
    /\ \A k \in DOMAIN ret.val.nonmatches : Negative(ret.val.nonmatches[k])


\* ---- C26 -----------------------------------------------------------------
\* the pairs of class c whose vector has a value in coordinate i
Contributors(c, i) ==
  {k \in DOMAIN comparisons : ret.val.km.assign[k] = c /\ comparisons[k][i] # NoneC}

RECURSIVE TotalOf(_, _)
TotalOf(ks, i) ==
  IF ks = {} THEN 0
  ELSE LET k == CHOOSE q \in ks : TRUE IN comparisons[k][i][1] + TotalOf(ks \ {k}, i)

\* coordinate i of centroid cen is the mean of the values of class c
MeanOfPresent(cen, c, i) ==
  LET ks == Contributors(c, i) IN
  IF ks = {} THEN cen[i] = NoneC
  ELSE /\ cen[i] # NoneC
       /\ cen[i][1] * Cardinality(ks) = TotalOf(ks, i) * cen[i][2]

\* C26: after the last update of k-means, every coordinate of either
\* centroid is the sum of the values present in that coordinate over the
\* vectors assigned to the centroid, divided by their number; missing values
\* count for nothing, and a coordinate no assigned vector has a value in is
\* missing.
C26_CentroidIsMeanOfPresent ==
  AfterKmeans =>
    \A i \in 1..Len(ret.val.km.high) :
       /\ MeanOfPresent(ret.val.km.high, TRUE, i)
       /\ MeanOfPresent(ret.val.km.low, FALSE, i)

\* a centroid was computed from vectors of which one misses a coordinate
\* that another has, and the other centroid misses a coordinate altogether
C26_Witness ==
  /\ AfterKmeans
  /\ \E c \in BOOLEAN : \E i \in 1..Len(ret.val.km.high) :
        /\ Contributors(c, i) # {}
        /\ \E k \in DOMAIN comparisons :
              ret.val.km.assign[k] = c /\ comparisons[k][i] = NoneC
  /\ \E i \in 1..Len(ret.val.km.high) :
        ret.val.km.high[i] = NoneC \/ ret.val.km.low[i] = NoneC


\* ================================================================= distance
\* math.sqrt(x) of a rational x = << n, d >>: the root when x is the square
\* of an integer, and otherwise the irrational number named by x
sqrt(x) ==
  IF \E r \in 0..x[1] : r * r * x[2] = x[1]
    THEN << "int", CHOOSE r \in 0..x[1] : r * r * x[2] = x[1] >>
    ELSE << "root", x[1], x[2] >>

\* distance.L2(vec1, vec2)
L2_NoneAsZero(vec1, vec2) ==
  IF Len(vec1) # Len(vec2) THEN Raised("AssertionError")
  ELSE LET zero(v) == [i \in 1..Len(v) |-> IF v[i] = NoneC THEN << 0 >> ELSE v[i]] IN
       Returned(sqrt(L2sq(RatVec(zero(vec1)), RatVec(zero(vec2)))))

L2(vec1, vec2) ==
  IF Len(vec1) # Len(vec2) THEN Raised("AssertionError")
  ELSE Returned(sqrt(L2sq(RatVec(vec1), RatVec(vec2))))

MaxCoord == 2      \* greatest component of a vector handed to L2
MaxDim == 2        \* greatest length of a vector handed to L2

Coords == {NoneC} \cup {<< x >> : x \in 0..MaxCoord}
CoordVectors == UNION {[1..n -> Coords] : n \in 0..MaxDim}

DistanceArgs == {[fn |-> "L2", vec1 |-> a, vec2 |-> b] : a, b \in CoordVectors}

InitDistance ==
  /\ args \in DistanceArgs
  /\ InitOthers

L2Call ==
  /\ args.fn = "L2"
  /\ ret.op = "init"
  /\ ret' = SimRet(L2(args.vec1, args.vec2))
  /\ UNCHANGED << args, others >>

NextDistance == L2Call

SpecDistance == InitDistance /\ [][NextDistance]_vars

\* ---- C27 -----------------------------------------------------------------
AfterL2 == ret.op = "L2"

\* the components present in both vectors
Shared(v, w) == {i \in 1..Len(v) : v[i] # NoneC /\ w[i] # NoneC}

RECURSIVE SumSquares(_, _, _)
SumSquares(S, v, w) ==
  IF S = {} THEN 0
  ELSE LET i == CHOOSE j \in S : TRUE IN
       (v[i][1] - w[i][1]) * (v[i][1] - w[i][1]) + SumSquares(S \ {i}, v, w)

\* v and w differ only in components where u is None
SameWhereVisible(v, w, u) ==
  /\ Len(v) = Len(w)
  /\ \A i \in 1..Len(v) : u[i] # NoneC => v[i] = w[i]

\* C27: L2(v1, v2) of vectors of one length is the square root of the sum of
\* the squared differences over the components present in both; it is the
\* same with the arguments swapped, 0 when no component is present in both,
\* and the same whatever a vector holds where the other has None; vectors of
\* different lengths raise an error.
C27_L2OverSharedComponents ==
  AfterL2 =>
    LET v == args.vec1
        w == args.vec2 IN
    /\ Len(v) # Len(w) => ret.status = "AssertionError"
    /\ Len(v) = Len(w) =>
         /\ ret.status = "ok"
         /\ ret.val.val = sqrt(<< SumSquares(Shared(v, w), v, w), 1 >>)
         /\ L2(w, v) = L2(v, w)
         /\ Shared(v, w) = {} => ret.val.val = << "int", 0 >>
         /\ \A u \in CoordVectors :
               SameWhereVisible(u, v, w) => L2(u, w) = L2(v, w)
         /\ \A u \in CoordVectors :
               SameWhereVisible(u, w, v) => L2(v, u) = L2(v, w)

\* L2 returned a positive distance for two vectors that share a component,
\* one of which holds a number where the other has None
C27_Witness ==
  /\ AfterL2
  /\ ret.status = "ok"
  /\ ret.val.val # << "int", 0 >>
  /\ \E i \in 1..Len(args.vec1) : args.vec1[i] # NoneC /\ args.vec2[i] = NoneC

\* L2 rejected vectors of different lengths
C27_WitnessRejected == AfterL2 /\ ret.status = "AssertionError"


\* ---- C28 -----------------------------------------------------------------
\* kmeans.classify or nearest.classify has returned
AfterClassified == ret.op \in {"kmeans", "nearest"} /\ ret.status = "ok"

\* C28: the matches and non-matches that kmeans.classify and
\* nearest.classify return have disjoint key sets whose union is the key set
\* of the PairMap handed to the call, and the PairMap holds after the call
\* the pairs and vectors it was handed with.
C28_PartitionAndFrame ==
  AfterClassified =>
    /\ DOMAIN ret.val.matches \cap DOMAIN ret.val.nonmatches = {}
    /\ DOMAIN ret.val.matches \cup DOMAIN ret.val.nonmatches = DOMAIN args.comparisons
    /\ comparisons = args.comparisons

\* kmeans.classify split three pairs into matches and non-matches
C28_Witness ==
  /\ AfterClassified
  /\ ret.op = "kmeans"
  /\ Cardinality(DOMAIN comparisons) = 3
  /\ DOMAIN ret.val.matches # {}
  /\ DOMAIN ret.val.nonmatches # {}


\* ---- C29 -----------------------------------------------------------------
\* the records of the all-pairs indexes of Indices object s, by position
AllPairsRecords(s) ==
  [i \in {j \in 1..Len(indices[s]) : indices[s][j].type = "allpairs"} |->
     lists[indices[s][i].records]]

\* the lists the callers handed to the constructors
CallerLists == [id \in {"L", "R"} |-> lists[id]]

\* C29: an insert into the input Indices leaves the records of the all-pairs
\* indexes of the master Indices as they were, whether the indexes were
\* constructed with a records argument or without; and insert and compare
\* leave the lists that the callers handed to the constructors as they were.
C29_NoSharedState ==
  [][/\ ret'.op = "insert" => AllPairsRecords("R")' = AllPairsRecords("R")
     /\ ret'.op \in {"insert", "compare"} => CallerLists' = CallerLists]_vars

\* the same for all-pairs indexes constructed with lists of the callers
C29_OthersRecordsKept ==
  [][(ret'.op = "insert" /\ \A s \in Sides : \A i \in 1..Len(indices[s]) :
         indices[s][i].records # "default")
       => AllPairsRecords("R")' = AllPairsRecords("R")]_vars


\* ---- C30 -----------------------------------------------------------------
\* a compare of one index, handed the cache args.comparisons, has returned
AfterCachedCompare == ret.op = "compare" /\ ret.status = "ok" /\ args # << >>

\* this step is such a compare
CachedCompare == ret'.op = "compare" /\ ret'.status = "ok"

\* the records of a list with the number of times each is in it
BagOf(seq) == [o \in Elems(seq) |-> Occurrences(seq, o)]

\* the records under each key of index i of s, as multisets
Buckets(s, i) == [k \in DOMAIN View(s, i) |-> BagOf(View(s, i)[k])]

\* the dict key k is that of a candidate pair of the compare made
CandidateKey(k) ==
  \E a, b \in Objs :
     /\ PairKey(a, b) = k
     /\ IF ret.mode = "self" THEN ShareKey(ret.side, ret.idx, a, b)
                             ELSE ShareKeyAcross(ret.side, Peer(ret.side), ret.idx, a, b)

\* C30: Index.compare handed a cache returns the cache extended: every entry
\* of the cache is in the result with the value it had, the similarity
\* function is called for no pair that the cache held, every entry added is
\* that of a candidate pair of the index, and every index holds under each
\* key the multiset of records it held before the call.
C30_CacheExtended ==
  /\ [](AfterCachedCompare =>
          LET cache == args.comparisons IN
          /\ \A k \in DOMAIN cache : k \in DOMAIN ret.val /\ ret.val[k] = cache[k]
          /\ \A p \in DOMAIN calls : PairKey(p[1], p[2]) \notin DOMAIN cache
          /\ \A k \in DOMAIN ret.val \ DOMAIN cache : CandidateKey(k))
  /\ [][CachedCompare =>
          /\ \A s \in Sides : Len(indices'[s]) = Len(indices[s])
          /\ \A s \in Sides : \A i \in 1..Len(indices[s]) :
                Buckets(s, i)' = Buckets(s, i)]_vars

\* a compare kept the cached entry of a candidate pair and added the entry of
\* another
C30_Witness ==
  /\ AfterCachedCompare
  /\ \E k \in DOMAIN args.comparisons : ret.val[k] = << 99 >> /\ CandidateKey(k)
  /\ DOMAIN ret.val \ DOMAIN args.comparisons # {}

====
